---- MODULE Spec2Model ----
(***************************************************************************)
(* Single-validator stake pool (stake-pool/single-pool/src/processor.rs).  *)
(*                                                                         *)
(* Three specifications over one set of variables:                         *)
(*   CalcSpec  the exchange-rate calculators as pure functions, applied to *)
(*             inputs drawn from bounded sets;                             *)
(*   Spec      the instruction handlers acting on the stake, mint and      *)
(*             token accounts of one pool;                                 *)
(*   MetaSpec  the instructions that read the vote account and the token   *)
(*             metadata instructions, on a ledger whose vote account holds *)
(*             any owner and any data.                                     *)
(*                                                                         *)
(* Integers are scaled: TLC's integers are 32 bits wide, so u64 is         *)
(* modelled as an unsigned integer of U64_BITS bits and u128 as one of     *)
(* twice that width.  Every narrowing and every checked operation of the   *)
(* source is kept, against the scaled widths.                              *)
(***************************************************************************)
EXTENDS Integers, Sequences, FiniteSets, TLC

VARIABLES
    calc,            \* CalcSpec: the calculator's inputs and result
    accounts,        \* the ledger: stake accounts, the mint, token accounts, the wallet
    clock,           \* the Clock sysvar's epoch
    net_minimum,     \* stake::tools::get_minimum_delegation(), fixed for a behaviour
    last             \* the last instruction: its arguments, result and sub-operations

vars == <<calc, accounts, clock, net_minimum, last>>

-----------------------------------------------------------------------------
(* Integer widths and Option<u64> *)

U64_BITS == 7

U64_MAX == 2^U64_BITS - 1

U128_MAX == 2^(2 * U64_BITS) - 1

Some(x) == <<x>>

None == <<>>

IsSome(o) == o # None

Unwrap(o) == o[1]

\* u128::checked_mul
checked_mul(a, b) == IF a * b > U128_MAX THEN None ELSE Some(a * b)

\* u128::checked_div
checked_div(a, b) == IF b = 0 THEN None ELSE Some(a \div b)

\* u64::try_from(u128).ok()
\* mutant: a value that does not fit is clamped to u64::MAX
u64_try_from_saturating(x) == IF x > U64_MAX THEN Some(U64_MAX) ELSE Some(x)

u64_try_from(x) == IF x > U64_MAX THEN None ELSE Some(x)

\* u64::checked_sub
checked_sub(a, b) == IF b > a THEN None ELSE Some(a - b)

\* u64::saturating_sub
saturating_sub(a, b) == IF b > a THEN 0 ELSE a - b

\* u64::saturating_add
saturating_add(a, b) == IF a + b > U64_MAX THEN U64_MAX ELSE a + b

-----------------------------------------------------------------------------
(* Exchange-rate calculators *)

\* mutant: the quotient is rounded up instead of down
calculate_deposit_amount_ceil(pre_token_supply, pre_pool_stake, user_stake_to_deposit) ==
    IF pre_pool_stake = 0 \/ pre_token_supply = 0
    THEN Some(user_stake_to_deposit)
    ELSE u64_try_from((user_stake_to_deposit * pre_token_supply + pre_pool_stake - 1)
                      \div pre_pool_stake)

\* mutant: the bootstrap branch is taken only when both the stake and the supply are zero
calculate_deposit_amount_and(pre_token_supply, pre_pool_stake, user_stake_to_deposit) ==
    IF pre_pool_stake = 0 /\ pre_token_supply = 0
    THEN Some(user_stake_to_deposit)
    ELSE LET quotient == checked_div(user_stake_to_deposit * pre_token_supply, pre_pool_stake)
         IN  IF quotient = None THEN None ELSE u64_try_from(Unwrap(quotient))

\* mutant: the product is taken in 64 bits and wraps
calculate_deposit_amount_wrapping(pre_token_supply, pre_pool_stake, user_stake_to_deposit) ==
    IF pre_pool_stake = 0 \/ pre_token_supply = 0
    THEN Some(user_stake_to_deposit)
    ELSE Some(((user_stake_to_deposit * pre_token_supply) % (U64_MAX + 1))
              \div pre_pool_stake)

\* mutant: the withdraw formula is used (supply and stake exchanged)
calculate_deposit_amount_swapped(pre_token_supply, pre_pool_stake, user_stake_to_deposit) ==
    IF pre_pool_stake = 0 \/ pre_token_supply = 0
    THEN Some(user_stake_to_deposit)
    ELSE u64_try_from((user_stake_to_deposit * pre_pool_stake) \div pre_token_supply)

calculate_deposit_amount(pre_token_supply, pre_pool_stake, user_stake_to_deposit) ==
    IF pre_pool_stake = 0 \/ pre_token_supply = 0
    THEN Some(user_stake_to_deposit)
    ELSE LET product == checked_mul(user_stake_to_deposit, pre_token_supply)
         IN  IF product = None THEN None
             ELSE LET quotient == checked_div(Unwrap(product), pre_pool_stake)
                  IN  IF quotient = None THEN None
                      ELSE u64_try_from(Unwrap(quotient))

\* mutant: the deposit formula is used (supply and stake exchanged)
calculate_withdraw_amount_swapped(pre_token_supply, pre_pool_stake, user_tokens_to_burn) ==
    IF pre_pool_stake = 0 \/ user_tokens_to_burn * pre_token_supply < pre_pool_stake
    THEN Some(0)
    ELSE u64_try_from((user_tokens_to_burn * pre_token_supply) \div pre_pool_stake)

\* mutant: the dust test is <= instead of <
calculate_withdraw_amount_le(pre_token_supply, pre_pool_stake, user_tokens_to_burn) ==
    IF pre_token_supply = 0 \/ user_tokens_to_burn * pre_pool_stake <= pre_token_supply
    THEN Some(0)
    ELSE u64_try_from((user_tokens_to_burn * pre_pool_stake) \div pre_token_supply)

\* mutant: the quotient is rounded up
calculate_withdraw_amount_ceil(pre_token_supply, pre_pool_stake, user_tokens_to_burn) ==
    IF pre_token_supply = 0 \/ user_tokens_to_burn * pre_pool_stake < pre_token_supply
    THEN Some(0)
    ELSE u64_try_from((user_tokens_to_burn * pre_pool_stake + pre_token_supply - 1)
                          \div pre_token_supply)

calculate_withdraw_amount(pre_token_supply, pre_pool_stake, user_tokens_to_burn) ==
    LET numerator == checked_mul(user_tokens_to_burn, pre_pool_stake)
    IN  IF numerator = None THEN None
        ELSE LET denominator == pre_token_supply
             IN  IF Unwrap(numerator) < denominator \/ denominator = 0
                 THEN Some(0)
                 ELSE LET quotient == checked_div(Unwrap(numerator), denominator)
                      IN  IF quotient = None THEN None
                          ELSE u64_try_from(Unwrap(quotient))

-----------------------------------------------------------------------------
(* CalcSpec: the calculators applied to bounded inputs.                    *)
(* calc.pre_token_supply, calc.pre_pool_stake and calc.amount are the      *)
(* inputs; a deposit moves the pool to (post_token_supply,                 *)
(* post_pool_stake) and a withdrawal is computed against that state.       *)

MaxAmount == 12

Amounts == (0 .. MaxAmount) \cup {50, 100, 110, U64_MAX - 1, U64_MAX}

CalcInit ==
    /\ accounts = <<>> /\ clock = 0 /\ net_minimum = 1 /\ last = <<>>
    /\ \E s \in Amounts, p \in Amounts, a \in Amounts :
        calc = [op |-> "input", pre_token_supply |-> s, pre_pool_stake |-> p,
                amount |-> a, post_token_supply |-> s, post_pool_stake |-> p,
                out |-> None]

\* tokens minted for a deposit of calc.amount stake
CalcDeposit ==
    /\ UNCHANGED <<accounts, clock, net_minimum, last>>
    /\ calc.op = "input"
    /\ LET t == calculate_deposit_amount(calc.pre_token_supply,
                                         calc.pre_pool_stake, calc.amount)
           fits == /\ IsSome(t)
                   /\ calc.pre_token_supply + Unwrap(t) <= U64_MAX
                   /\ calc.pre_pool_stake + calc.amount <= U64_MAX
       IN  calc' = [calc EXCEPT
                      !.op = IF fits THEN "deposited" ELSE "deposit_failed",
                      !.out = t,
                      !.post_token_supply = IF fits THEN @ + Unwrap(t) ELSE @,
                      !.post_pool_stake = IF fits THEN @ + calc.amount ELSE @]

\* stake released for burning calc.amount tokens
CalcWithdraw ==
    /\ UNCHANGED <<accounts, clock, net_minimum, last>>
    /\ calc.op = "input"
    /\ calc' = [calc EXCEPT
                  !.op = "withdrawn",
                  !.out = calculate_withdraw_amount(calc.pre_token_supply,
                                                    calc.pre_pool_stake, calc.amount)]

\* the tokens just minted are withdrawn against the post-deposit state
CalcRoundTrip ==
    /\ UNCHANGED <<accounts, clock, net_minimum, last>>
    /\ calc.op = "deposited"
    /\ calc' = [calc EXCEPT
                  !.op = "round_trip",
                  !.out = calculate_withdraw_amount(calc.post_token_supply,
                                                    calc.post_pool_stake, Unwrap(calc.out))]

CalcNext == CalcDeposit \/ CalcWithdraw \/ CalcRoundTrip

CalcSpec == CalcInit /\ [][CalcNext]_vars

-----------------------------------------------------------------------------
(* The ledger: keys, programs, derived addresses, account records.         *)
(* Amounts are scaled like the integer widths: LAMPORTS_PER_SOL stands for *)
(* 10^9 lamports and STAKE_RENT, MINT_RENT for the rent-exempt minimums;   *)
(* the handlers use them only in sums, differences and comparisons.        *)

LAMPORTS_PER_SOL == 2

STAKE_RENT == 1

MINT_RENT == 1

\* Epoch::MAX
EPOCH_MAX == U64_MAX

\* lamports the user's wallet holds at the start; no lamports are created
UserFunds == 9

MaxEpoch == 1

\* the values get_minimum_delegation() may report: below and above the 1 SOL floor
NetMinimums == {1, LAMPORTS_PER_SOL + 1}

Votes == {"vote1", "vote0"}

\* A vote account's data is a sequence of bytes: the state variant, a
\* little-endian u32, in the first VOTE_STATE_START bytes and the authorized
\* withdrawer's key in the bytes VOTE_STATE_START .. VOTE_STATE_END.  Keys are
\* scaled to PUBKEY_BYTES bytes.
VOTE_STATE_START == 4

PUBKEY_BYTES == 1

VOTE_STATE_END == VOTE_STATE_START + PUBKEY_BYTES

Bytes == {0, 1}

\* the keys an authorized withdrawer may have
Keys == [1 .. PUBKEY_BYTES -> Bytes]

\* the withdrawer of the validator's vote account
WithdrawerKey == [i \in 1 .. PUBKEY_BYTES |-> 1]

\* the vote accounts of a current (vote1) and of a legacy (vote0) validator
VoteAccount(vote) ==
    IF vote = "vote1"
    THEN [owner |-> "vote_program", data |-> <<1, 0, 0, 0>> \o WithdrawerKey \o <<0>>]
    ELSE [owner |-> "vote_program", data |-> <<0, 0, 0, 0>> \o WithdrawerKey \o <<0>>]

\* the metadata account of the pool mint, before it is created
BlankMetadata ==
    [created |-> FALSE, update_authority |-> "none", name |-> "", symbol |-> "",
     uri |-> ""]

\* mpl_token_metadata::pda::find_metadata_account
find_metadata_account(pool_mint) ==
    IF pool_mint = "pool_mint1" THEN "metadata1" ELSE "metadata0"

StakeKeys == {"pool_stake1", "user_stake"}

\* the token accounts of the user and of another holder of pool tokens
TokenKeys == {"user_token", "other_token"}

\* the keys a withdrawal may name as the new authority of the split stake
StakeAuthorities == {"user", "other"}

\* addresses a caller may pass as the pool authority and as the pool mint
Authorities == {"pool_authority1", "pool_authority0"}

Mints == {"pool_mint1", "pool_mint0"}

\* crate::find_pool_stake_address_and_bump
find_pool_stake_address_and_bump(vote_account_address) ==
    IF vote_account_address = "vote1"
    THEN [address |-> "pool_stake1", bump |-> 255]
    ELSE [address |-> "pool_stake0", bump |-> 254]

\* crate::find_pool_authority_address_and_bump
find_pool_authority_address_and_bump(vote_account_address) ==
    IF vote_account_address = "vote1"
    THEN [address |-> "pool_authority1", bump |-> 253]
    ELSE [address |-> "pool_authority0", bump |-> 255]

\* crate::find_pool_mint_address_and_bump
find_pool_mint_address_and_bump(vote_account_address) ==
    IF vote_account_address = "vote1"
    THEN [address |-> "pool_mint1", bump |-> 252]
    ELSE [address |-> "pool_mint0", bump |-> 255]

\* the address invoke_signed signs for, given the authority seeds
AuthoritySigner(vote_account_key, bump_seed) ==
    IF bump_seed = find_pool_authority_address_and_bump(vote_account_key).bump
    THEN find_pool_authority_address_and_bump(vote_account_key).address
    ELSE "none"

BlankStake ==
    [owner |-> "system_program", allocated |-> FALSE, lamports |-> 0,
     state |-> "Uninitialized", staker |-> "none", withdrawer |-> "none",
     rent_exempt_reserve |-> 0, voter |-> "none", stake |-> 0,
     activation_epoch |-> 0, deactivation_epoch |-> 0]

BlankMint ==
    [owner |-> "system_program", allocated |-> FALSE, lamports |-> 0,
     is_initialized |-> FALSE, mint_authority |-> "none",
     freeze_authority |-> "none", supply |-> 0]

\* a sub-operation's result: whether it succeeded, and the accounts after it
Done(a) == [ok |-> TRUE, a |-> a]

Failed(a) == [ok |-> FALSE, a |-> a]

-----------------------------------------------------------------------------
(* The system, token and stake programs, as far as the handlers invoke     *)
(* them (spec sections 4.3, 4.4 and 6).                                    *)

system_allocate_stake(a, key) ==
    IF key \notin StakeKeys THEN Failed(a)
    ELSE IF a.stake[key].owner # "system_program" \/ a.stake[key].allocated THEN Failed(a)
    ELSE Done([a EXCEPT !.stake[key].allocated = TRUE])

system_assign_stake(a, key, owner) ==
    IF key \notin StakeKeys THEN Failed(a)
    ELSE IF a.stake[key].owner # "system_program" THEN Failed(a)
    ELSE Done([a EXCEPT !.stake[key].owner = owner])

\* mutant: an account that already holds data is allocated again
system_allocate_mint_again(a) ==
    IF a.mint.owner # "system_program" THEN Done(a)
    ELSE Done([a EXCEPT !.mint.allocated = TRUE])

system_allocate_mint(a) ==
    IF a.mint.owner # "system_program" \/ a.mint.allocated THEN Failed(a)
    ELSE Done([a EXCEPT !.mint.allocated = TRUE])

system_assign_mint(a, owner) ==
    IF a.mint.owner # "system_program" THEN Failed(a)
    ELSE Done([a EXCEPT !.mint.owner = owner])

token_initialize_mint2(a, mint_authority, freeze_authority) ==
    IF \/ a.mint.owner # "token_program" \/ ~a.mint.allocated
       \/ a.mint.is_initialized \/ a.mint.lamports < MINT_RENT
    THEN Failed(a)
    ELSE Done([a EXCEPT !.mint.is_initialized = TRUE,
                        !.mint.mint_authority = mint_authority,
                        !.mint.freeze_authority = freeze_authority,
                        !.mint.supply = 0])

token_program_mint_to(a, destination, signer, amount) ==
    IF \/ ~a.mint.is_initialized \/ a.mint.owner # "token_program"
       \/ signer # a.mint.mint_authority
       \/ destination \notin TokenKeys
       \/ a.mint.supply + amount > U64_MAX
    THEN Failed(a)
    ELSE Done([a EXCEPT !.mint.supply = @ + amount,
                        !.tokens[destination] = @ + amount])

\* the user has approved the pool authority as delegate of the token account
token_program_burn(a, burn_account, signer, amount) ==
    IF \/ ~a.mint.is_initialized \/ a.mint.owner # "token_program"
       \/ burn_account \notin TokenKeys
       \/ signer # a.mint.mint_authority
    THEN Failed(a)
    ELSE IF a.tokens[burn_account] < amount THEN Failed(a)
    ELSE Done([a EXCEPT !.mint.supply = @ - amount,
                        !.tokens[burn_account] = @ - amount])

stake_program_initialize_checked(a, key, staker, withdrawer) ==
    IF key \notin StakeKeys THEN Failed(a)
    ELSE IF \/ a.stake[key].owner # "stake_program" \/ ~a.stake[key].allocated
            \/ a.stake[key].state # "Uninitialized"
            \/ a.stake[key].lamports < STAKE_RENT
    THEN Failed(a)
    ELSE Done([a EXCEPT !.stake[key].state = "Initialized",
                        !.stake[key].staker = staker,
                        !.stake[key].withdrawer = withdrawer,
                        !.stake[key].rent_exempt_reserve = STAKE_RENT])

stake_program_delegate_stake(a, key, signer, vote, epoch, minimum) ==
    IF key \notin StakeKeys THEN Failed(a)
    ELSE LET acct == a.stake[key]
         IN  IF \/ acct.owner # "stake_program" \/ acct.state # "Initialized"
                \/ signer # acct.staker
                \/ a.vote[vote].owner # "vote_program"
                \/ acct.lamports - acct.rent_exempt_reserve < minimum
             THEN Failed(a)
             ELSE Done([a EXCEPT !.stake[key].state = "Stake",
                                 !.stake[key].voter = vote,
                                 !.stake[key].stake = acct.lamports - acct.rent_exempt_reserve,
                                 !.stake[key].activation_epoch = epoch,
                                 !.stake[key].deactivation_epoch = EPOCH_MAX])

\* MergeKind::get_if_mergeable, without stake history: a delegation is fully
\* active from the epoch after its activation epoch
MergeKind(acct, epoch) ==
    IF acct.state = "Initialized" THEN "Inactive"
    ELSE IF acct.state # "Stake" THEN "Invalid"
    ELSE IF acct.deactivation_epoch # EPOCH_MAX
         THEN IF \/ acct.deactivation_epoch = acct.activation_epoch
                 \/ acct.deactivation_epoch < epoch
              THEN "Inactive" ELSE "Transient"
    ELSE IF acct.activation_epoch = epoch THEN "ActivationEpoch"
    ELSE "FullyActive"

\* the delegated stake of the merged account, none when the kinds do not merge
MergedStake(dest, source, epoch) ==
    LET dk == MergeKind(dest, epoch)
        sk == MergeKind(source, epoch)
    IN  IF dk = "Inactive" /\ sk \in {"Inactive", "ActivationEpoch"} THEN Some(dest.stake)
        ELSE IF dk = "ActivationEpoch" /\ sk = "Inactive"
             THEN Some(dest.stake + source.lamports)
        ELSE IF dk = "ActivationEpoch" /\ sk = "ActivationEpoch" /\ dest.voter = source.voter
             THEN Some(dest.stake + source.rent_exempt_reserve + source.stake)
        ELSE IF dk = "FullyActive" /\ sk = "FullyActive" /\ dest.voter = source.voter
             THEN Some(dest.stake + source.stake)
        ELSE None

stake_program_merge(a, destination, source, signer, epoch) ==
    IF destination \notin StakeKeys \/ source \notin StakeKeys \/ destination = source
    THEN Failed(a)
    ELSE LET d == a.stake[destination]
             s == a.stake[source]
             merged == MergedStake(d, s, epoch)
         IN  IF \/ d.owner # "stake_program" \/ s.owner # "stake_program"
                \/ signer # d.staker
                \/ d.staker # s.staker \/ d.withdrawer # s.withdrawer
                \/ merged = None
                \/ d.lamports + s.lamports > U64_MAX
             THEN Failed(a)
             ELSE Done([a EXCEPT
                          !.stake[destination].stake = Unwrap(merged),
                          !.stake[destination].lamports = d.lamports + s.lamports,
                          !.stake[source] = [BlankStake EXCEPT !.owner = "stake_program",
                                                               !.allocated = TRUE]])

stake_program_split(a, source, signer, lamports, destination, minimum) ==
    IF source \notin StakeKeys \/ destination \notin StakeKeys \/ destination = source
    THEN Failed(a)
    ELSE LET s == a.stake[source]
             d == a.stake[destination]
             remaining == s.lamports - lamports
             all == remaining = 0
             remaining_stake_delta ==
                 IF all THEN saturating_sub(lamports, s.rent_exempt_reserve) ELSE lamports
             split_stake_amount ==
                 IF all THEN remaining_stake_delta
                 ELSE saturating_sub(lamports, saturating_sub(STAKE_RENT, d.lamports))
         IN  IF \/ s.owner # "stake_program" \/ d.owner # "stake_program"
                \/ ~d.allocated \/ d.state # "Uninitialized"
                \/ s.state # "Stake"
                \/ signer # s.staker
                \/ lamports = 0 \/ lamports > s.lamports
             THEN Failed(a)
             ELSE IF \/ (~all /\ remaining < s.rent_exempt_reserve + minimum)
                     \/ d.lamports + lamports < STAKE_RENT + minimum
                     \/ remaining_stake_delta > s.stake
             THEN Failed(a)
             ELSE Done([a EXCEPT
                          !.stake[source].lamports = remaining,
                          !.stake[source].stake = s.stake - remaining_stake_delta,
                          !.stake[destination] =
                              [s EXCEPT !.lamports = d.lamports + lamports,
                                        !.rent_exempt_reserve = STAKE_RENT,
                                        !.stake = split_stake_amount]])

\* role is "Staker" or "Withdrawer"; the withdrawer may also replace the staker
stake_program_authorize(a, key, signer, new_authority, role) ==
    IF key \notin StakeKeys THEN Failed(a)
    ELSE LET acct == a.stake[key]
         IN  IF \/ acct.owner # "stake_program"
                \/ acct.state \notin {"Initialized", "Stake"}
                \/ (role = "Staker" /\ signer \notin {acct.staker, acct.withdrawer})
                \/ (role = "Withdrawer" /\ signer # acct.withdrawer)
             THEN Failed(a)
             ELSE IF role = "Staker"
                  THEN Done([a EXCEPT !.stake[key].staker = new_authority])
                  ELSE Done([a EXCEPT !.stake[key].withdrawer = new_authority])

\* the destination is the user's wallet; delegated stake and the rent-exempt
\* reserve cannot be withdrawn
stake_program_withdraw(a, key, signer, lamports, epoch) ==
    IF key \notin StakeKeys THEN Failed(a)
    ELSE LET acct == a.stake[key]
             staked == IF MergeKind(acct, epoch) = "Inactive" THEN 0 ELSE acct.stake
         IN  IF \/ acct.owner # "stake_program" \/ acct.state # "Stake"
                \/ signer # acct.withdrawer
                \/ lamports + staked + acct.rent_exempt_reserve > acct.lamports
             THEN Failed(a)
             ELSE Done([a EXCEPT !.stake[key].lamports = @ - lamports,
                                 !.wallet = @ + lamports])

\* the metadata program's create: the metadata account of a mint is created
\* once, for an initialized mint, with the signatures of the mint authority
\* and of the payer
mpl_create_metadata_accounts_v3(a, metadata, mint, mint_authority, payer_is_signer, update_authority, data) ==
    IF \/ mint # "pool_mint1"
       \/ metadata # find_metadata_account(mint)
       \/ a.metadata.created
       \/ ~a.mint.is_initialized
       \/ mint_authority # a.mint.mint_authority
       \/ ~payer_is_signer
    THEN Failed(a)
    ELSE Done([a EXCEPT !.metadata = [created |-> TRUE,
                                      update_authority |-> update_authority,
                                      name |-> data.name, symbol |-> data.symbol,
                                      uri |-> data.uri]])

\* the metadata program's update: only the metadata's update authority may
\* change an existing metadata account
mpl_update_metadata_accounts_v2(a, metadata, signer, data) ==
    IF \/ metadata # find_metadata_account("pool_mint1")
       \/ ~a.metadata.created
       \/ signer # a.metadata.update_authority
    THEN Failed(a)
    ELSE Done([a EXCEPT !.metadata.name = data.name,
                        !.metadata.symbol = data.symbol,
                        !.metadata.uri = data.uri])

-----------------------------------------------------------------------------
(* Checks and helpers of the processor *)

Ok(v) == [err |-> "Ok", val |-> v]

Err(e) == [err |-> e, val |-> 0]

\* what a handler returns: its result, the accounts as its sub-operations
\* left them, and the sub-operations it invoked, in order
Ret(result, a, issued) == [result |-> result, a |-> a, issued |-> issued]

Op(name, account, amount) == [op |-> name, account |-> account, amount |-> amount]

\* mutant: the account's data is not deserialized
get_stake_state_unchecked(stake_account) == Ok(stake_account)

get_stake_state(stake_account) ==
    IF ~stake_account.allocated THEN Err("BorshIoError")
    ELSE IF stake_account.state = "Stake" THEN Ok(stake_account)
    ELSE Err("WrongStakeState")

get_stake_amount(stake_account) ==
    IF get_stake_state(stake_account).err # "Ok" THEN get_stake_state(stake_account)
    ELSE Ok(stake_account.stake)

\* mutant: the bump seed of the stake address is returned for the authority
check_pool_authority_address_stake_bump(vote_account_address, address) ==
    IF address # find_pool_authority_address_and_bump(vote_account_address).address
    THEN Err("InvalidPoolAuthority")
    ELSE Ok(find_pool_stake_address_and_bump(vote_account_address).bump)

\* mutant: the deactivation epoch is not looked at
is_stake_active_ignoring_deactivation(stake, current_epoch) ==
    stake.activation_epoch < current_epoch

is_stake_active_without_history(stake, current_epoch) ==
    /\ stake.activation_epoch < current_epoch
    /\ stake.deactivation_epoch = EPOCH_MAX

check_pool_stake_address(vote_account_address, address) ==
    IF address # find_pool_stake_address_and_bump(vote_account_address).address
    THEN Err("InvalidPoolStakeAccount")
    ELSE Ok(find_pool_stake_address_and_bump(vote_account_address).bump)

check_pool_authority_address(vote_account_address, address) ==
    IF address # find_pool_authority_address_and_bump(vote_account_address).address
    THEN Err("InvalidPoolAuthority")
    ELSE Ok(find_pool_authority_address_and_bump(vote_account_address).bump)

\* mutant: every address is accepted as the pool mint
check_pool_mint_address_any(vote_account_address, address) ==
    Ok(find_pool_mint_address_and_bump(vote_account_address).bump)

check_pool_mint_address(vote_account_address, address) ==
    IF address # find_pool_mint_address_and_bump(vote_account_address).address
    THEN Err("InvalidPoolMint")
    ELSE Ok(find_pool_mint_address_and_bump(vote_account_address).bump)

\* mutant: the owner is not compared
check_account_owner_any(owner, program_id) == "Ok"

check_account_owner(owner, program_id) ==
    IF program_id # owner THEN "IncorrectProgramId" ELSE "Ok"

\* <[u8]>::get(from..to): the bytes from (0-based) up to to, if there are that many
slice_get(data, from, to) ==
    IF Len(data) < to THEN None ELSE Some(SubSeq(data, from + 1, to))

\* <[u8; 4]>::try_from(&[u8]).ok()
try_into_4_bytes(bytes) == IF Len(bytes) = 4 THEN Some(bytes) ELSE None

\* mutant: the bytes are read most significant first
u32_from_be_bytes(bytes) ==
    16777216 * bytes[1] + 65536 * bytes[2] + 256 * bytes[3] + bytes[4]

u32_from_le_bytes(bytes) ==
    bytes[1] + 256 * bytes[2] + 65536 * bytes[3] + 16777216 * bytes[4]

check_vote_account(vote_account_info) ==
    IF check_account_owner(vote_account_info.owner, "vote_program") # "Ok"
    THEN "IncorrectProgramId"
    ELSE LET prefix == slice_get(vote_account_info.data, 0, VOTE_STATE_START)
             state_variant == IF prefix = None THEN None
                              ELSE try_into_4_bytes(Unwrap(prefix))
         IN  IF state_variant = None THEN "UnparseableVoteAccount"
             ELSE IF u32_from_le_bytes(Unwrap(state_variant)) = 1 THEN "Ok"
             ELSE IF u32_from_le_bytes(Unwrap(state_variant)) = 0
                  THEN "LegacyVoteAccount"
             ELSE "UnparseableVoteAccount"

check_mpl_metadata_account_address(metadata_address, pool_mint) ==
    IF find_metadata_account(pool_mint) # metadata_address
    THEN "InvalidMetadataAccount" ELSE "Ok"

check_mpl_metadata_program(program_id) ==
    IF program_id # "mpl_token_metadata" THEN "IncorrectProgramId" ELSE "Ok"

check_system_program(program_id) ==
    IF program_id # "system_program" THEN "IncorrectProgramId" ELSE "Ok"

check_token_program(address) ==
    IF address # "token_program" THEN "IncorrectProgramId" ELSE "Ok"

check_stake_program(program_id) ==
    IF program_id # "stake_program" THEN "IncorrectProgramId" ELSE "Ok"

\* mutant: no minimum
minimum_delegation_zero(net) == 0

\* mutant: the network's minimum is used without the floor
minimum_delegation_network(net) == net

minimum_delegation(net) == IF net > LAMPORTS_PER_SOL THEN net ELSE LAMPORTS_PER_SOL

\* Mint::unpack_from_slice(..).supply
mint_supply(a) == IF ~a.mint.allocated THEN Err("InvalidAccountData") ELSE Ok(a.mint.supply)

\* the first failing check of the handlers' address and program checks
FirstError(results) ==
    IF \A i \in 1 .. Len(results) : results[i] = "Ok" THEN "Ok"
    ELSE results[CHOOSE i \in 1 .. Len(results) :
                    /\ results[i] # "Ok"
                    /\ \A j \in 1 .. (i - 1) : results[j] = "Ok"]

-----------------------------------------------------------------------------
(* The processor's wrappers of the sub-operations: each signs with the     *)
(* pool authority seeds (prefix, vote account key, bump seed).             *)

stake_merge(a, vote_account_key, source_account, bump_seed, destination_account, epoch) ==
    stake_program_merge(a, destination_account, source_account,
                        AuthoritySigner(vote_account_key, bump_seed), epoch)

stake_split(a, vote_account_key, stake_account, bump_seed, amount, split_stake, net) ==
    stake_program_split(a, stake_account, AuthoritySigner(vote_account_key, bump_seed),
                        amount, split_stake, net)

\* mutant: only the staker is reassigned
stake_authorize_staker_only(a, vote_account_key, stake_account, bump_seed, new_stake_authority) ==
    LET signer == AuthoritySigner(vote_account_key, bump_seed)
        first == stake_program_authorize(a, stake_account, signer,
                                         new_stake_authority, "Staker")
    IN  [ok |-> first.ok, a |-> first.a,
         issued |-> <<Op("authorize_staker", stake_account, 0)>>]

\* Staker first, Withdrawer second; the second is not invoked if the first fails
stake_authorize(a, vote_account_key, stake_account, bump_seed, new_stake_authority) ==
    LET signer == AuthoritySigner(vote_account_key, bump_seed)
        first == stake_program_authorize(a, stake_account, signer,
                                         new_stake_authority, "Staker")
        second == stake_program_authorize(first.a, stake_account, signer,
                                          new_stake_authority, "Withdrawer")
    IN  IF ~first.ok
        THEN [ok |-> FALSE, a |-> first.a,
              issued |-> <<Op("authorize_staker", stake_account, 0)>>]
        ELSE [ok |-> second.ok, a |-> second.a,
              issued |-> <<Op("authorize_staker", stake_account, 0),
                           Op("authorize_withdrawer", stake_account, 0)>>]

stake_withdraw(a, vote_account_key, stake_account, bump_seed, lamports, epoch) ==
    stake_program_withdraw(a, stake_account, AuthoritySigner(vote_account_key, bump_seed),
                           lamports, epoch)

token_mint_to(a, vote_account_key, destination, bump_seed, amount) ==
    token_program_mint_to(a, destination, AuthoritySigner(vote_account_key, bump_seed),
                          amount)

token_burn(a, vote_account_key, burn_account, bump_seed, amount) ==
    token_program_burn(a, burn_account, AuthoritySigner(vote_account_key, bump_seed),
                       amount)

-----------------------------------------------------------------------------
(* Instruction handlers.  Each returns at its first error with the         *)
(* accounts as its sub-operations left them.                               *)

\* mutant: a balance equal to the threshold is rejected
is_wrong_rent_amount_le(lamports, stake_rent_plus_initial) ==
    lamports <= stake_rent_plus_initial

\* the funding check of the pool stake account
is_wrong_rent_amount(lamports, stake_rent_plus_initial) ==
    lamports < stake_rent_plus_initial

process_initialize_pool(a, epoch, net, args) ==
    LET vote == args.vote_account
        stake_bump_seed == check_pool_stake_address(vote, args.pool_stake)
        authority_bump_seed == check_pool_authority_address(vote, args.pool_authority)
        mint_bump_seed == check_pool_mint_address(vote, args.pool_mint)
        checks == FirstError(<<check_vote_account(a.vote[vote]), stake_bump_seed.err,
                               authority_bump_seed.err, mint_bump_seed.err,
                               check_system_program(args.system_program),
                               check_token_program(args.token_program),
                               check_stake_program(args.stake_program)>>)
        authority == AuthoritySigner(vote, authority_bump_seed.val)
        \* create the pool mint
        r1 == system_allocate_mint(a)
        i1 == <<Op("allocate", args.pool_mint, 0)>>
        r2 == system_assign_mint(r1.a, args.token_program)
        i2 == Append(i1, Op("assign", args.pool_mint, 0))
        r3 == token_initialize_mint2(r2.a, args.pool_authority, "none")
        i3 == Append(i2, Op("initialize_mint2", args.pool_mint, 0))
        \* create the pool stake account
        min == minimum_delegation(net)
        stake_rent_plus_initial == saturating_add(STAKE_RENT, min)
        r4 == system_allocate_stake(r3.a, args.pool_stake)
        i4 == Append(i3, Op("allocate", args.pool_stake, 0))
        r5 == system_assign_stake(r4.a, args.pool_stake, args.stake_program)
        i5 == Append(i4, Op("assign", args.pool_stake, 0))
        r6 == stake_program_initialize_checked(r5.a, args.pool_stake,
                                               args.pool_authority, authority)
        i6 == Append(i5, Op("initialize_checked", args.pool_stake, 0))
        r7 == stake_program_delegate_stake(r6.a, args.pool_stake, authority, vote,
                                           epoch, net)
        i7 == Append(i6, Op("delegate_stake", args.pool_stake, 0))
    IN  IF checks # "Ok" THEN Ret(checks, a, <<>>)
        ELSE IF ~r1.ok THEN Ret("AllocateFailed", r1.a, i1)
        ELSE IF ~r2.ok THEN Ret("AssignFailed", r2.a, i2)
        ELSE IF ~r3.ok THEN Ret("InitializeMintFailed", r3.a, i3)
        ELSE IF is_wrong_rent_amount(r3.a.stake[args.pool_stake].lamports,
                                     stake_rent_plus_initial)
             THEN Ret("WrongRentAmount", r3.a, i3)
        ELSE IF ~r4.ok THEN Ret("AllocateFailed", r4.a, i4)
        ELSE IF ~r5.ok THEN Ret("AssignFailed", r5.a, i5)
        ELSE IF ~r6.ok THEN Ret("InitializeStakeFailed", r6.a, i6)
        ELSE IF ~r7.ok THEN Ret("DelegateFailed", r7.a, i7)
        ELSE Ret("Ok", r7.a, i7)

\* the guards of the deposit and withdraw handlers

\* mutant: the pool stake account is accepted as the user stake account
is_same_account_never(pool_stake_key, user_stake_key) == FALSE

is_same_account(pool_stake_key, user_stake_key) == pool_stake_key = user_stake_key

\* mutant: a deposit that mints no tokens is let through
is_deposit_too_small_never(new_pool_tokens) == FALSE

is_deposit_too_small(new_pool_tokens) == new_pool_tokens = 0

\* mutant: a withdrawal that releases no stake is let through
is_withdrawal_too_small_never(withdraw_stake) == FALSE

is_withdrawal_too_small(withdraw_stake) == withdraw_stake = 0

\* mutant: the ceiling is the pool's lamports instead of its effective stake
is_withdrawal_too_large_lamports(withdraw_stake, pre_pool_stake, pool_lamports) ==
    withdraw_stake >= pool_lamports

\* mutant: a withdrawal of the whole effective stake is refused
is_withdrawal_too_large_ge(withdraw_stake, pre_pool_stake, pool_lamports) ==
    withdraw_stake >= pre_pool_stake \/ withdraw_stake = pool_lamports

\* mutant: the second case compares with the lamports above the rent and the floor
is_withdrawal_too_large_reserve(withdraw_stake, pre_pool_stake, pool_lamports) ==
    \/ withdraw_stake > pre_pool_stake
    \/ withdraw_stake = pool_lamports - STAKE_RENT - LAMPORTS_PER_SOL

is_withdrawal_too_large(withdraw_stake, pre_pool_stake, pool_lamports) ==
    withdraw_stake > pre_pool_stake \/ withdraw_stake = pool_lamports

\* mutant: the authorities of the pool stake account are reassigned
authorized_account_pool(args) == args.pool_stake

\* the account whose authorities a withdrawal reassigns
authorized_account(args) == args.user_stake

\* mutant: the raw delegated stake is compared with the minimum
is_below_minimum_raw(post_pool_stake, min) == post_pool_stake + min < min

\* sanity check: we have not somehow gone below the minimum
is_below_minimum(post_pool_stake, min) == post_pool_stake < min

\* mutant: the rent-exempt reserve is counted as excess
checked_excess_lamports_with_rent(post_pool_lamports, stake, rent_exempt_reserve) ==
    checked_sub(post_pool_lamports, stake)

\* the lamports of the pool stake account beyond its delegation and its rent
checked_excess_lamports(post_pool_lamports, stake, rent_exempt_reserve) ==
    LET amount == checked_sub(post_pool_lamports, stake)
    IN  IF amount = None THEN None
        ELSE checked_sub(Unwrap(amount), rent_exempt_reserve)

process_deposit_stake(a, epoch, net, args) ==
    LET vote == args.vote_account_address
        bump_seed == check_pool_authority_address(vote, args.pool_authority)
        checks == FirstError(<<check_pool_stake_address(vote, args.pool_stake).err,
                               bump_seed.err,
                               check_pool_mint_address(vote, args.pool_mint).err,
                               check_token_program(args.token_program),
                               check_stake_program(args.stake_program)>>)
        min == minimum_delegation(net)
        pool_stake_state == get_stake_state(a.stake[args.pool_stake])
        pre_pool_stake == saturating_sub(pool_stake_state.val.stake, min)
        user_stake_state == get_stake_state(a.stake[args.user_stake])
        \* merge the user stake account into the pool stake account
        r1 == stake_merge(a, vote, args.user_stake, bump_seed.val, args.pool_stake, epoch)
        i1 == <<Op("merge", args.pool_stake, 0)>>
        post_state == get_stake_state(r1.a.stake[args.pool_stake])
        post_pool_stake == saturating_sub(post_state.val.stake, min)
        post_pool_lamports == r1.a.stake[args.pool_stake].lamports
        stake_added == checked_sub(post_pool_stake, pre_pool_stake)
        excess_lamports ==
            checked_excess_lamports(post_pool_lamports, post_state.val.stake,
                                    post_state.val.rent_exempt_reserve)
        token_supply == mint_supply(r1.a)
        new_pool_tokens ==
            calculate_deposit_amount(token_supply.val, pre_pool_stake, Unwrap(stake_added))
        \* mint tokens to the user
        r2 == token_mint_to(r1.a, vote, args.user_token_account, bump_seed.val,
                            Unwrap(new_pool_tokens))
        i2 == Append(i1, Op("mint_to", args.user_token_account, Unwrap(new_pool_tokens)))
        \* return the excess lamports
        r3 == stake_withdraw(r2.a, vote, args.pool_stake, bump_seed.val,
                             Unwrap(excess_lamports), epoch)
        i3 == Append(i2, Op("withdraw", args.pool_stake, Unwrap(excess_lamports)))
    IN  IF checks # "Ok" THEN Ret(checks, a, <<>>)
        ELSE IF is_same_account(args.pool_stake, args.user_stake)
             THEN Ret("InvalidPoolAccountUsage", a, <<>>)
        ELSE IF pool_stake_state.err # "Ok" THEN Ret(pool_stake_state.err, a, <<>>)
        ELSE IF user_stake_state.err # "Ok" THEN Ret(user_stake_state.err, a, <<>>)
        ELSE IF is_stake_active_without_history(pool_stake_state.val, epoch)
                # is_stake_active_without_history(user_stake_state.val, epoch)
             THEN Ret("WrongStakeState", a, <<>>)
        ELSE IF ~r1.ok THEN Ret("MergeFailed", r1.a, i1)
        ELSE IF post_state.err # "Ok" THEN Ret(post_state.err, r1.a, i1)
        ELSE IF stake_added = None THEN Ret("ArithmeticOverflow", r1.a, i1)
        ELSE IF excess_lamports = None THEN Ret("ArithmeticOverflow", r1.a, i1)
        ELSE IF is_below_minimum(post_pool_stake, min)
             THEN Ret("UnexpectedMathError", r1.a, i1)
        ELSE IF r1.a.stake[args.user_stake].lamports # 0
             THEN Ret("UnexpectedMathError", r1.a, i1)
        ELSE IF token_supply.err # "Ok" THEN Ret(token_supply.err, r1.a, i1)
        ELSE IF new_pool_tokens = None THEN Ret("UnexpectedMathError", r1.a, i1)
        ELSE IF is_deposit_too_small(Unwrap(new_pool_tokens))
             THEN Ret("DepositTooSmall", r1.a, i1)
        ELSE IF ~r2.ok THEN Ret("MintFailed", r2.a, i2)
        ELSE IF Unwrap(excess_lamports) > 0
             THEN IF ~r3.ok THEN Ret("WithdrawFailed", r3.a, i3)
                  ELSE Ret("Ok", r3.a, i3)
        ELSE Ret("Ok", r2.a, i2)

process_withdraw_stake(a, epoch, net, args) ==
    LET vote == args.vote_account_address
        bump_seed == check_pool_authority_address(vote, args.pool_authority)
        checks == FirstError(<<check_pool_stake_address(vote, args.pool_stake).err,
                               bump_seed.err,
                               check_pool_mint_address(vote, args.pool_mint).err,
                               check_token_program(args.token_program),
                               check_stake_program(args.stake_program)>>)
        min == minimum_delegation(net)
        pool_stake_amount == get_stake_amount(a.stake[args.pool_stake])
        pre_pool_stake == saturating_sub(pool_stake_amount.val, min)
        token_supply == mint_supply(a)
        withdraw_stake ==
            calculate_withdraw_amount(token_supply.val, pre_pool_stake, args.token_amount)
        \* burn the user's tokens
        r1 == token_burn(a, vote, args.user_token_account, bump_seed.val, args.token_amount)
        i1 == <<Op("burn", args.user_token_account, args.token_amount)>>
        \* split stake into the user's blank stake account
        r2 == stake_split(r1.a, vote, args.pool_stake, bump_seed.val,
                          Unwrap(withdraw_stake), args.user_stake, net)
        i2 == Append(i1, Op("split", args.pool_stake, Unwrap(withdraw_stake)))
        \* assign both authorities on the new stake account to the user
        r3 == stake_authorize(r2.a, vote, authorized_account(args), bump_seed.val,
                              args.user_stake_authority)
        i3 == i2 \o r3.issued
        post_pool_stake == get_stake_amount(r3.a.stake[args.pool_stake])
    IN  IF checks # "Ok" THEN Ret(checks, a, <<>>)
        ELSE IF is_same_account(args.pool_stake, args.user_stake)
             THEN Ret("InvalidPoolAccountUsage", a, <<>>)
        ELSE IF pool_stake_amount.err # "Ok" THEN Ret(pool_stake_amount.err, a, <<>>)
        ELSE IF token_supply.err # "Ok" THEN Ret(token_supply.err, a, <<>>)
        ELSE IF withdraw_stake = None THEN Ret("UnexpectedMathError", a, <<>>)
        ELSE IF is_withdrawal_too_small(Unwrap(withdraw_stake))
             THEN Ret("WithdrawalTooSmall", a, <<>>)
        ELSE IF is_withdrawal_too_large(Unwrap(withdraw_stake), pre_pool_stake,
                                        a.stake[args.pool_stake].lamports)
             THEN Ret("WithdrawalTooLarge", a, <<>>)
        ELSE IF ~r1.ok THEN Ret("BurnFailed", r1.a, i1)
        ELSE IF ~r2.ok THEN Ret("SplitFailed", r2.a, i2)
        ELSE IF ~r3.ok THEN Ret("AuthorizeFailed", r3.a, i3)
        ELSE IF post_pool_stake.err # "Ok" THEN Ret(post_pool_stake.err, r3.a, i3)
        ELSE Ret("Ok", r3.a, i3)

\* the owner of an account a caller may name as the payer
AccountOwner(key) == IF key = "wallet" THEN "system_program" ELSE "token_program"

\* Mint::unpack_from_slice on the data of the account at the mint address;
\* only the mint of vote1's pool may hold data
unpack_mint(a, pool_mint) ==
    IF pool_mint # "pool_mint1" \/ ~a.mint.allocated THEN Err("InvalidAccountData")
    ELSE Ok(a.mint)

\* the names are the vote address, as a string, behind a fixed prefix; the
\* addresses of the model are shorter than the 15 and 7 characters taken
token_name(vote_account_address) == "SPL Single Pool " \o vote_account_address

token_symbol(vote_account_address) == "st" \o vote_account_address

process_create_pool_token_metadata(a, args) ==
    LET vote == args.vote_account_address
        bump_seed == check_pool_authority_address(vote, args.pool_authority)
        checks == FirstError(<<bump_seed.err,
                               check_pool_mint_address(vote, args.pool_mint).err,
                               check_system_program(args.system_program),
                               check_account_owner(AccountOwner(args.payer),
                                                   "system_program"),
                               check_mpl_metadata_program(args.mpl_token_metadata_program),
                               check_mpl_metadata_account_address(args.metadata,
                                                                  args.pool_mint)>>)
        pool_mint == unpack_mint(a, args.pool_mint)
        r1 == mpl_create_metadata_accounts_v3(
                  a, args.metadata, args.pool_mint, AuthoritySigner(vote, bump_seed.val),
                  args.payer_is_signer, args.pool_authority,
                  [name |-> token_name(vote), symbol |-> token_symbol(vote), uri |-> ""])
        i1 == <<Op("create_metadata_accounts_v3", args.metadata, 0)>>
    IN  IF checks # "Ok" THEN Ret(checks, a, <<>>)
        ELSE IF ~args.payer_is_signer THEN Ret("SignatureMissing", a, <<>>)
        ELSE IF pool_mint.err # "Ok" THEN Ret(pool_mint.err, a, <<>>)
        ELSE IF ~r1.ok THEN Ret("CreateMetadataFailed", r1.a, i1)
        ELSE Ret("Ok", r1.a, i1)

\* mutant: the key is read from the start of the data
vote_account_withdrawer_at_start(vote_account_data) ==
    slice_get(vote_account_data, 0, PUBKEY_BYTES)

\* the authorized withdrawer recorded in the vote account, if the data holds it
vote_account_withdrawer(vote_account_data) ==
    slice_get(vote_account_data, VOTE_STATE_START, VOTE_STATE_END)

process_update_pool_token_metadata(a, args) ==
    LET vote == args.vote_account
        bump_seed == check_pool_authority_address(vote, args.pool_authority)
        pool_mint_address == find_pool_mint_address_and_bump(vote).address
        checks == FirstError(<<check_vote_account(a.vote[vote]),
                               bump_seed.err,
                               check_mpl_metadata_program(args.mpl_token_metadata_program),
                               check_mpl_metadata_account_address(args.metadata,
                                                                  pool_mint_address)>>)
        withdrawer == vote_account_withdrawer(a.vote[vote].data)
        r1 == mpl_update_metadata_accounts_v2(
                  a, args.metadata, AuthoritySigner(vote, bump_seed.val),
                  [name |-> args.name, symbol |-> args.symbol, uri |-> args.uri])
        i1 == <<Op("update_metadata_accounts_v2", args.metadata, 0)>>
    IN  IF checks # "Ok" THEN Ret(checks, a, <<>>)
        ELSE IF withdrawer = None THEN Ret("UnparseableVoteAccount", a, <<>>)
        ELSE IF args.authorized_withdrawer # Unwrap(withdrawer)
             THEN Ret("InvalidMetadataSigner", a, <<>>)
        ELSE IF ~args.authorized_withdrawer_is_signer
             THEN Ret("SignatureMissing", a, <<>>)
        ELSE IF ~r1.ok THEN Ret("UpdateMetadataFailed", r1.a, i1)
        ELSE Ret("Ok", r1.a, i1)

-----------------------------------------------------------------------------
(* Spec: the ledger, the users and the three accounting instructions *)

MaxTokenAmount == 3

NoCall == [instr |-> "none", args |-> <<>>, result |-> "Ok", issued |-> <<>>]

Init ==
    /\ calc = <<>>
    /\ clock = 0
    /\ net_minimum \in NetMinimums
    /\ last = NoCall
    /\ accounts = [stake |-> [k \in StakeKeys |-> BlankStake],
                   mint |-> BlankMint,
                   tokens |-> [k \in TokenKeys |-> 0],
                   wallet |-> UserFunds,
                   vote |-> [v \in Votes |-> VoteAccount(v)],
                   metadata |-> BlankMetadata]

\* the runtime, at the end of a successful instruction: an account left
\* without lamports is removed from the ledger
Purge(a) ==
    [a EXCEPT !.stake = [k \in StakeKeys |->
                            IF a.stake[k].lamports = 0 THEN BlankStake ELSE a.stake[k]]]

\* mutant: the changes of a failed instruction are kept
Commit_partial(pre, out) == Purge(out.a)

\* the runtime: an instruction that returns an error commits nothing
Commit(pre, out) == IF out.result = "Ok" THEN Purge(out.a) ELSE pre

\* one instruction of a transaction: last holds it until the transaction ends
Call(instr, args, out) ==
    /\ last = NoCall
    /\ accounts' = Commit(accounts, out)
    /\ last' = [instr |-> instr, args |-> args, result |-> out.result,
                issued |-> out.issued]
    /\ UNCHANGED <<calc, clock, net_minimum>>

\* The accounts and arguments of the calls: every combination of stake
\* accounts with the pool's authority and mint, and every combination of
\* pool stake, authority and mint addresses, right or wrong, with one choice
\* of the other accounts; a withdrawal may also name u64::MAX tokens.
InitializePoolArgs ==
    [vote_account : Votes, pool_stake : StakeKeys, pool_authority : {"pool_authority1"},
     pool_mint : {"pool_mint1"}, system_program : {"system_program"},
     token_program : {"token_program"}, stake_program : {"stake_program"}]
    \cup
    [vote_account : {"vote1"}, pool_stake : StakeKeys, pool_authority : Authorities,
     pool_mint : Mints, system_program : {"system_program"},
     token_program : {"token_program"}, stake_program : {"stake_program"}]

DepositStakeArgs ==
    [vote_account_address : {"vote1"}, pool_stake : StakeKeys,
     pool_authority : {"pool_authority1"}, pool_mint : {"pool_mint1"},
     user_stake : StakeKeys, user_token_account : TokenKeys \cup {"wallet"},
     user_lamport_account : {"wallet"},
     token_program : {"token_program"}, stake_program : {"stake_program"}]
    \cup
    [vote_account_address : {"vote1"}, pool_stake : StakeKeys,
     pool_authority : Authorities, pool_mint : Mints,
     user_stake : {"user_stake"}, user_token_account : {"user_token"},
     user_lamport_account : {"wallet"},
     token_program : {"token_program"}, stake_program : {"stake_program"}]
    \cup
    [vote_account_address : {"vote0"}, pool_stake : {"pool_stake1"},
     pool_authority : {"pool_authority1"}, pool_mint : {"pool_mint1"},
     user_stake : {"user_stake"}, user_token_account : {"user_token"},
     user_lamport_account : {"wallet"},
     token_program : {"token_program"}, stake_program : {"stake_program"}]

WithdrawStakeArgs ==
    [vote_account_address : {"vote1"}, pool_stake : StakeKeys,
     pool_authority : {"pool_authority1"}, pool_mint : {"pool_mint1"},
     user_stake : StakeKeys, user_token_account : TokenKeys,
     token_program : {"token_program"}, stake_program : {"stake_program"},
     user_stake_authority : StakeAuthorities, token_amount : 0 .. MaxTokenAmount]
    \cup
    [vote_account_address : {"vote1"}, pool_stake : StakeKeys,
     pool_authority : Authorities, pool_mint : Mints,
     user_stake : {"user_stake"}, user_token_account : {"user_token"},
     token_program : {"token_program"}, stake_program : {"stake_program"},
     user_stake_authority : {"user"}, token_amount : {1}]
    \cup
    [vote_account_address : {"vote0"}, pool_stake : {"pool_stake1"},
     pool_authority : {"pool_authority1"}, pool_mint : {"pool_mint1"},
     user_stake : {"user_stake"}, user_token_account : {"user_token"},
     token_program : {"token_program"}, stake_program : {"stake_program"},
     user_stake_authority : {"user"}, token_amount : {1}]
    \cup
    [vote_account_address : {"vote1"}, pool_stake : {"pool_stake1"},
     pool_authority : {"pool_authority1"}, pool_mint : {"pool_mint1"},
     user_stake : {"user_stake"}, user_token_account : {"user_token"},
     token_program : {"token_program"}, stake_program : {"stake_program"},
     user_stake_authority : {"user"}, token_amount : {U64_MAX}]

InitializePool ==
    \E args \in InitializePoolArgs :
        Call("InitializePool", args,
             process_initialize_pool(accounts, clock, net_minimum, args))

DepositStake ==
    \E args \in DepositStakeArgs :
        Call("DepositStake", args,
             process_deposit_stake(accounts, clock, net_minimum, args))

WithdrawStake ==
    \E args \in WithdrawStakeArgs :
        Call("WithdrawStake", args,
             process_withdraw_stake(accounts, clock, net_minimum, args))

(* The users and the ledger around the program *)

Env(a) ==
    /\ last = NoCall
    /\ accounts' = a
    /\ last' = NoCall
    /\ UNCHANGED <<calc, clock, net_minimum>>

\* a system transfer into the pool stake address: the funding before
\* InitializePool, or lamports sent to the pool afterwards
TransferToPoolStake ==
    \E n \in 1 .. accounts.wallet :
        Env([accounts EXCEPT !.wallet = @ - n, !.stake["pool_stake1"].lamports = @ + n])

\* the rent of the mint, transferred in before InitializePool
TransferToPoolMint ==
    /\ accounts.mint.lamports = 0
    /\ accounts.wallet >= MINT_RENT
    /\ Env([accounts EXCEPT !.wallet = @ - MINT_RENT, !.mint.lamports = MINT_RENT])

\* the user creates a stake account and delegates n lamports to the validator
UserCreateStake ==
    \E n \in net_minimum .. accounts.wallet :
        /\ accounts.stake["user_stake"] = BlankStake
        /\ n + STAKE_RENT <= accounts.wallet
        /\ Env([accounts EXCEPT
                  !.wallet = @ - (n + STAKE_RENT),
                  !.stake["user_stake"] =
                      [owner |-> "stake_program", allocated |-> TRUE,
                       lamports |-> n + STAKE_RENT, state |-> "Stake",
                       staker |-> "user", withdrawer |-> "user",
                       rent_exempt_reserve |-> STAKE_RENT, voter |-> "vote1",
                       stake |-> n, activation_epoch |-> clock,
                       deactivation_epoch |-> EPOCH_MAX]])

\* the user creates the blank, rent-funded stake account a withdrawal splits into
UserCreateBlankStake ==
    /\ accounts.stake["user_stake"] = BlankStake
    /\ accounts.wallet >= STAKE_RENT
    /\ Env([accounts EXCEPT
              !.wallet = @ - STAKE_RENT,
              !.stake["user_stake"] =
                  [BlankStake EXCEPT !.owner = "stake_program", !.allocated = TRUE,
                                     !.lamports = STAKE_RENT]])

\* the user hands both authorities of the stake account to the pool authority
UserAuthorizePool ==
    /\ accounts.stake["user_stake"].state = "Stake"
    /\ accounts.stake["user_stake"].withdrawer = "user"
    /\ Env([accounts EXCEPT !.stake["user_stake"].staker = "pool_authority1",
                            !.stake["user_stake"].withdrawer = "pool_authority1"])

UserDeactivate ==
    /\ accounts.stake["user_stake"].state = "Stake"
    /\ accounts.stake["user_stake"].staker = "user"
    /\ accounts.stake["user_stake"].deactivation_epoch = EPOCH_MAX
    /\ Env([accounts EXCEPT !.stake["user_stake"].deactivation_epoch = clock])

\* the user takes a stake account of their own back into the wallet
UserCloseStake ==
    /\ accounts.stake["user_stake"].owner = "stake_program"
    /\ accounts.stake["user_stake"].withdrawer \in {"user", "none"}
    /\ Env([accounts EXCEPT !.wallet = @ + accounts.stake["user_stake"].lamports,
                            !.stake["user_stake"] = BlankStake])

\* the user sends pool tokens to another holder
UserTransferTokens ==
    \E n \in 1 .. accounts.tokens["user_token"] :
        Env([accounts EXCEPT !.tokens["user_token"] = @ - n,
                             !.tokens["other_token"] = @ + n])

AdvanceEpoch ==
    /\ last = NoCall
    /\ clock < MaxEpoch
    /\ clock' = clock + 1
    /\ last' = NoCall
    /\ UNCHANGED <<calc, accounts, net_minimum>>

\* the transaction of the last instruction ends
EndTransaction ==
    /\ last # NoCall
    /\ last' = NoCall
    /\ UNCHANGED <<calc, accounts, clock, net_minimum>>

Next ==
    \/ InitializePool \/ DepositStake \/ WithdrawStake \/ EndTransaction
    \/ TransferToPoolStake \/ TransferToPoolMint
    \/ UserCreateStake \/ UserCreateBlankStake \/ UserAuthorizePool
    \/ UserDeactivate \/ UserCloseStake \/ UserTransferTokens \/ AdvanceEpoch

Spec == Init /\ [][Next]_vars

-----------------------------------------------------------------------------
(* MetaSpec: the instructions that read the vote account, InitializePool   *)
(* and UpdateTokenMetadata, and CreateTokenMetadata, on a ledger whose     *)
(* vote account vote1 holds any owner and any data up to one byte past the *)
(* withdrawer's key, and whose pool accounts the user has funded or not.   *)

VoteOwners == {"vote_program", "system_program"}

VoteDatas == UNION {[1 .. n -> Bytes] : n \in 0 .. (VOTE_STATE_END + 1)}

\* the lamports the user has sent to the pool stake account, and to the mint
PoolFunds == {0, STAKE_RENT + LAMPORTS_PER_SOL}

CreateTokenMetadataArgs ==
    [vote_account_address : Votes, pool_authority : Authorities, pool_mint : Mints,
     payer : {"wallet", "user_token"}, payer_is_signer : BOOLEAN,
     metadata : {"metadata1", "metadata0"},
     mpl_token_metadata_program : {"mpl_token_metadata", "token_program"},
     system_program : {"system_program", "token_program"}]

UpdateTokenMetadataArgs ==
    [vote_account : Votes, pool_authority : Authorities,
     authorized_withdrawer : Keys, authorized_withdrawer_is_signer : BOOLEAN,
     metadata : {"metadata1", "metadata0"},
     mpl_token_metadata_program : {"mpl_token_metadata", "token_program"},
     name : {"name"}, symbol : {"symbol"}, uri : {"uri"}]

MetaInit ==
    /\ calc = <<>>
    /\ clock = 0
    /\ net_minimum = 1
    /\ last = NoCall
    /\ \E owner \in VoteOwners, data \in VoteDatas, funds \in PoolFunds :
           accounts = [stake |-> [k \in StakeKeys |->
                                    IF k = "pool_stake1"
                                    THEN [BlankStake EXCEPT !.lamports = funds]
                                    ELSE BlankStake],
                       mint |-> [BlankMint EXCEPT
                                   !.lamports = IF funds > 0 THEN MINT_RENT ELSE 0],
                       tokens |-> [k \in TokenKeys |-> 0],
                       wallet |-> UserFunds - funds - (IF funds > 0 THEN MINT_RENT ELSE 0),
                       vote |-> [v \in Votes |->
                                   IF v = "vote1" THEN [owner |-> owner, data |-> data]
                                   ELSE VoteAccount(v)],
                       metadata |-> BlankMetadata]

CreateTokenMetadata ==
    \E args \in CreateTokenMetadataArgs :
        Call("CreateTokenMetadata", args,
             process_create_pool_token_metadata(accounts, args))

UpdateTokenMetadata ==
    \E args \in UpdateTokenMetadataArgs :
        Call("UpdateTokenMetadata", args,
             process_update_pool_token_metadata(accounts, args))

MetaNext == InitializePool \/ CreateTokenMetadata \/ UpdateTokenMetadata \/ EndTransaction

MetaSpec == MetaInit /\ [][MetaNext]_vars

-----------------------------------------------------------------------------
(* Claims about the calculators (CalcSpec) *)

\* C1 (as stated): depositing calc.amount stake and then withdrawing the
\* minted tokens against the post-deposit state releases at most calc.amount,
\* for every pool state, the bootstrap branches included.
C1_RoundTripAnyState ==
    calc.op = "round_trip" => IsSome(calc.out) /\ Unwrap(calc.out) <= calc.amount

\* C1 (amended): the round trip releases at most the deposited stake whenever
\* the pool had tokens outstanding or had no effective stake before the
\* deposit; with pre_supply = 0 and pre_effective_stake > 0 the first
\* depositor's tokens redeem the whole post-deposit effective stake.
C1_RoundTrip ==
    calc.op = "round_trip" =>
        /\ IsSome(calc.out)
        /\ (calc.pre_token_supply > 0 \/ calc.pre_pool_stake = 0)
               => Unwrap(calc.out) <= calc.amount
        /\ (calc.pre_token_supply = 0 /\ calc.pre_pool_stake > 0 /\ calc.amount > 0)
               => Unwrap(calc.out) = calc.pre_pool_stake + calc.amount

C1_Witness ==
    /\ calc.op = "round_trip"
    /\ calc.pre_token_supply = 3 /\ calc.pre_pool_stake = 7 /\ calc.amount = 5
    /\ calc.post_token_supply = 5
    /\ calc.out = Some(4)

\* C2 (as stated): for pre_supply > 0 and pre_stake > 0 and every token
\* amount, a defined withdraw amount is at most pre_stake.
C2_WithdrawAtMostBackingAnyTokens ==
    (calc.op = "withdrawn" /\ calc.pre_token_supply > 0 /\ calc.pre_pool_stake > 0
        /\ IsSome(calc.out))
    => Unwrap(calc.out) <= calc.pre_pool_stake

\* C2 (amended): for pre_supply > 0, pre_stake > 0 and tokens <= pre_supply
\* the withdraw amount is defined and at most pre_stake.
C2_WithdrawAtMostBacking ==
    (calc.op = "withdrawn" /\ calc.pre_token_supply > 0 /\ calc.pre_pool_stake > 0
        /\ calc.amount <= calc.pre_token_supply)
    => IsSome(calc.out) /\ Unwrap(calc.out) <= calc.pre_pool_stake

C2_Witness ==
    /\ calc.op = "withdrawn"
    /\ calc.pre_token_supply = 7 /\ calc.pre_pool_stake = 10 /\ calc.amount = 7
    /\ calc.out = Some(10)

\* C3: the deposit amount is the deposited stake when the pool stake or the
\* supply is zero, and otherwise floor(added * supply / stake), none when
\* the quotient does not fit in u64.  Examples in units of 10^8:
\* (0, 0, 50) -> 50 and (100, 100, 10) -> 10.
C3_DepositAmount ==
    calc.op \in {"deposited", "deposit_failed"} =>
        LET s == calc.pre_token_supply
            p == calc.pre_pool_stake
            a == calc.amount
        IN  /\ (p = 0 \/ s = 0) => calc.out = Some(a)
            /\ (p # 0 /\ s # 0 /\ (a * s) \div p <= U64_MAX)
                   => calc.out = Some((a * s) \div p)
            /\ (p # 0 /\ s # 0 /\ (a * s) \div p > U64_MAX) => calc.out = None
            /\ (s = 0 /\ p = 0 /\ a = 50) => calc.out = Some(50)
            /\ (s = 100 /\ p = 100 /\ a = 10) => calc.out = Some(10)

C3_Witness ==
    /\ calc.op = "deposited"
    /\ calc.pre_token_supply = 100 /\ calc.pre_pool_stake = 100 /\ calc.amount = 10
    /\ calc.out = Some(10)

\* C4: the withdraw amount is 0 when the supply is zero or tokens * stake <
\* supply (dust), and otherwise floor(tokens * stake / supply), none when the
\* quotient does not fit in u64.  Examples: (100, 1, 1) -> 0 (dust) and, in
\* units of 10^8, (110, 110, 11) -> 11.
C4_WithdrawAmount ==
    calc.op = "withdrawn" =>
        LET s == calc.pre_token_supply
            p == calc.pre_pool_stake
            t == calc.amount
        IN  /\ (s = 0 \/ t * p < s) => calc.out = Some(0)
            /\ (s # 0 /\ t * p >= s /\ (t * p) \div s <= U64_MAX)
                   => calc.out = Some((t * p) \div s)
            /\ (s # 0 /\ t * p >= s /\ (t * p) \div s > U64_MAX) => calc.out = None
            /\ (s = 100 /\ p = 1 /\ t = 1) => calc.out = Some(0)
            /\ (s = 110 /\ p = 110 /\ t = 11) => calc.out = Some(11)

C4_Witness ==
    /\ calc.op = "withdrawn"
    /\ calc.pre_token_supply = 100 /\ calc.pre_pool_stake = 1 /\ calc.amount = 1
    /\ calc.out = Some(0)

-----------------------------------------------------------------------------
(* Claims about the handlers (Spec) *)

PoolStake == accounts.stake["pool_stake1"]

UserStake == accounts.stake["user_stake"]

Handlers == {"InitializePool", "DepositStake", "WithdrawStake"}

\* the last call was instr with the pool's derived addresses and a user
\* stake account that is not the pool's
ProperCall(l, instr) ==
    /\ l.instr = instr
    /\ l.args.vote_account_address = "vote1"
    /\ l.args.pool_stake = "pool_stake1"
    /\ l.args.pool_authority = "pool_authority1"
    /\ l.args.pool_mint = "pool_mint1"
    /\ l.args.user_stake = "user_stake"

IssuedOps(l) == {l.issued[i].op : i \in 1 .. Len(l.issued)}

\* C5: once initialized, the pool stake account's staker and withdrawer are
\* the pool authority and its validator is the vote account it was
\* initialized with, through every deposit and withdrawal, successful or
\* failed; authorize is only ever invoked on the user stake account.
C5_PoolAuthorityPermanent ==
    /\ PoolStake.state # "Uninitialized" =>
           /\ PoolStake.state = "Stake"
           /\ PoolStake.staker = "pool_authority1"
           /\ PoolStake.withdrawer = "pool_authority1"
           /\ PoolStake.voter = "vote1"
    /\ \A i \in 1 .. Len(last.issued) :
           last.issued[i].op \in {"authorize_staker", "authorize_withdrawer"} =>
               /\ last.issued[i].account = last.args.user_stake
               /\ last.issued[i].account # "pool_stake1"

C5_Witness ==
    /\ last.instr = "WithdrawStake" /\ last.result = "Ok"
    /\ IssuedOps(last) = {"burn", "split", "authorize_staker", "authorize_withdrawer"}
    /\ PoolStake.staker = "pool_authority1"
    /\ UserStake.staker = "user" /\ UserStake.withdrawer = "user"

\* C6: a deposit or withdrawal whose user stake account is the pool stake
\* account fails, with InvalidPoolAccountUsage when the derived addresses are
\* correct, and invokes no sub-operation.
C6_SelfAliasingFails ==
    (last.instr \in {"DepositStake", "WithdrawStake"}
        /\ last.args.pool_stake = last.args.user_stake)
    => /\ last.result # "Ok"
       /\ last.issued = <<>>
       /\ last.args.pool_stake = "pool_stake1" => last.result = "InvalidPoolAccountUsage"

C6_Witness ==
    /\ last.instr = "DepositStake"
    /\ last.args.pool_stake = "pool_stake1" /\ last.args.user_stake = "pool_stake1"
    /\ last.result = "InvalidPoolAccountUsage"
    /\ PoolStake.state = "Stake" /\ PoolStake.activation_epoch < clock

ActiveAt(stake, epoch) ==
    stake.activation_epoch < epoch /\ stake.deactivation_epoch = EPOCH_MAX

\* C7: a deposit fails with WrongStakeState, before any sub-operation is
\* invoked, when the pool stake and the user stake differ in activity
\* (active: activation_epoch < current epoch and deactivation_epoch =
\* Epoch::MAX), and when either account holds a stake state other than
\* Stake(meta, stake).
C7_ActivityMismatchFails ==
    [][ProperCall(last', "DepositStake") =>
          /\ (PoolStake.state = "Stake" /\ UserStake.state = "Stake"
                 /\ ActiveAt(PoolStake, clock) # ActiveAt(UserStake, clock))
             => (last'.result = "WrongStakeState" /\ last'.issued = <<>>)
          /\ (PoolStake.allocated /\ UserStake.allocated
                 /\ (PoolStake.state # "Stake" \/ UserStake.state # "Stake"))
             => (last'.result = "WrongStakeState" /\ last'.issued = <<>>)
          /\ (PoolStake.allocated /\ PoolStake.state # "Stake")
             => (last'.result = "WrongStakeState" /\ last'.issued = <<>>)
       ]_vars

C7_Witness ==
    /\ ProperCall(last, "DepositStake")
    /\ last.result = "WrongStakeState"
    /\ PoolStake.state = "Stake" /\ UserStake.state = "Stake"
    /\ UserStake.staker = "pool_authority1"
    /\ ActiveAt(PoolStake, clock) /\ ~ActiveAt(UserStake, clock)

\* C8: an InitializePool, DepositStake or WithdrawStake call that returns an
\* error leaves every account as it was before the call, also when the error
\* is raised after sub-operations were invoked.
C8_ErrorLeavesAccountsUnchanged ==
    [][(last'.instr \in Handlers /\ last'.result # "Ok") => accounts' = accounts]_vars

C8_Witness ==
    /\ last.instr = "DepositStake"
    /\ last.result \in {"UnexpectedMathError", "DepositTooSmall", "MintFailed"}
    /\ IssuedOps(last) \in {{"merge"}, {"merge", "mint_to"}}
    /\ UserStake.state = "Stake" /\ UserStake.lamports > 0

\* C9: a withdrawal computes w = withdraw_amount(supply, effective stake,
\* token_amount); when w fits in u64 it fails with WithdrawalTooSmall if w = 0, otherwise with
\* WithdrawalTooLarge if w > effective stake or w = the pool account's
\* lamports, both before any sub-operation is invoked; a successful
\* withdrawal splits out exactly w with 0 < w <= effective stake.
C9_WithdrawBounds ==
    [][(ProperCall(last', "WithdrawStake") /\ PoolStake.state = "Stake"
           /\ accounts.mint.allocated) =>
          LET effective == saturating_sub(PoolStake.stake, minimum_delegation(net_minimum))
              w == calculate_withdraw_amount(accounts.mint.supply, effective,
                                             last'.args.token_amount)
          IN  IsSome(w) =>
              /\ Unwrap(w) = 0 =>
                     (last'.result = "WithdrawalTooSmall" /\ last'.issued = <<>>)
              /\ (Unwrap(w) > 0 /\ (Unwrap(w) > effective \/ Unwrap(w) = PoolStake.lamports))
                     => (last'.result = "WithdrawalTooLarge" /\ last'.issued = <<>>)
              /\ (Unwrap(w) > 0 /\ Unwrap(w) <= effective /\ Unwrap(w) # PoolStake.lamports)
                     => (/\ last'.result \notin {"WithdrawalTooSmall", "WithdrawalTooLarge"}
                         /\ Len(last'.issued) >= 1 /\ last'.issued[1].op = "burn")
              /\ last'.result = "Ok" =>
                     /\ 0 < Unwrap(w) /\ Unwrap(w) <= effective
                     /\ last'.issued[2] = Op("split", "pool_stake1", Unwrap(w))
                     /\ accounts'.stake["pool_stake1"].stake = PoolStake.stake - Unwrap(w)
                     /\ accounts'.stake["user_stake"].stake = Unwrap(w)
       ]_vars

C9_Witness ==
    /\ ProperCall(last, "WithdrawStake") /\ last.result = "Ok"
    /\ last.args.token_amount = 2
    /\ last.issued[2].op = "split" /\ last.issued[2].amount = 3
    /\ UserStake.stake = 3

\* the pool's delegated stake after the merge of a deposit
PostMergeStake == Unwrap(MergedStake(PoolStake, UserStake, clock))

\* C10: a successful deposit mints to the user's token account exactly
\* N = deposit_amount(supply, pre-merge effective stake, post-merge effective
\* stake - pre-merge effective stake), with N > 0; when N = 0 the call fails
\* with DepositTooSmall and mint_to is not invoked.
C10_DepositMintsDepositAmount ==
    [][(ProperCall(last', "DepositStake")
           /\ last'.result \in {"Ok", "DepositTooSmall", "MintFailed", "WithdrawFailed"}) =>
          LET min == minimum_delegation(net_minimum)
              pre == saturating_sub(PoolStake.stake, min)
              post == saturating_sub(PostMergeStake, min)
              N == calculate_deposit_amount(accounts.mint.supply, pre, post - pre)
              to == last'.args.user_token_account
          IN  /\ IsSome(N)
              /\ Unwrap(N) = 0 <=> last'.result = "DepositTooSmall"
              /\ last'.result = "DepositTooSmall" => last'.issued = <<Op("merge", "pool_stake1", 0)>>
              /\ last'.result = "Ok" =>
                     /\ Unwrap(N) > 0
                     /\ last'.issued[2] = Op("mint_to", to, Unwrap(N))
                     /\ accounts'.tokens[to] = accounts.tokens[to] + Unwrap(N)
                     /\ accounts'.mint.supply = accounts.mint.supply + Unwrap(N)
                     /\ accounts'.stake["pool_stake1"].stake = PostMergeStake
       ]_vars

C10_Witness ==
    /\ ProperCall(last, "DepositStake") /\ last.result = "Ok"
    /\ last.issued[2].op = "mint_to" /\ last.issued[2].amount = 2
    /\ accounts.mint.supply = 5 /\ accounts.tokens["user_token"] = 5

-----------------------------------------------------------------------------
(* Claims C11 - C20 *)

\* the pool stake account a call names is not owned by the stake program, or
\* the mint is not owned by the token program
OwnershipFails(l) ==
    \/ accounts.stake[l.args.pool_stake].owner # "stake_program"
    \/ accounts.mint.owner # "token_program"

VoteOf(l) ==
    IF l.instr = "InitializePool" THEN l.args.vote_account ELSE l.args.vote_account_address

\* C12: InitializePool (once its vote account check has passed), DepositStake
\* and WithdrawStake compare the pool stake, pool authority and pool mint
\* addresses with the ones derived from the vote account, in that order; the
\* first mismatch aborts the call with InvalidPoolStakeAccount,
\* InvalidPoolAuthority or InvalidPoolMint, no sub-operation invoked; a
\* matching authority address yields the derived bump, for which the signer
\* seeds give the pool authority, the signer a successful deposit's merge and
\* a successful withdrawal's split were authorized by.
C12_AddressChecks ==
    /\ [](\A vote \in Votes, address \in Authorities :
             LET r == check_pool_authority_address(vote, address)
             IN  /\ r.err = "Ok" <=>
                        address = find_pool_authority_address_and_bump(vote).address
                 /\ r.err = "Ok" =>
                        /\ r.val = find_pool_authority_address_and_bump(vote).bump
                        /\ AuthoritySigner(vote, r.val) = address)
    /\ [][(last'.instr \in Handlers
            /\ (last'.instr = "InitializePool" =>
                    check_vote_account(accounts.vote[last'.args.vote_account]) = "Ok"))
           => LET vote == VoteOf(last')
                  stake_ok == last'.args.pool_stake =
                                  find_pool_stake_address_and_bump(vote).address
                  authority_ok == last'.args.pool_authority =
                                      find_pool_authority_address_and_bump(vote).address
                  mint_ok == last'.args.pool_mint =
                                 find_pool_mint_address_and_bump(vote).address
                  errors == {"InvalidPoolStakeAccount", "InvalidPoolAuthority",
                             "InvalidPoolMint"}
              IN  /\ ~stake_ok => last'.result = "InvalidPoolStakeAccount"
                  /\ (stake_ok /\ ~authority_ok) => last'.result = "InvalidPoolAuthority"
                  /\ (stake_ok /\ authority_ok /\ ~mint_ok) =>
                         last'.result = "InvalidPoolMint"
                  /\ (stake_ok /\ authority_ok /\ mint_ok) => last'.result \notin errors
                  /\ last'.result \in errors =>
                         (last'.issued = <<>> /\ accounts' = accounts)
                  /\ (last'.result = "Ok" /\ last'.instr # "InitializePool") =>
                         AuthoritySigner(vote, check_pool_authority_address(
                                                   vote, last'.args.pool_authority).val)
                             = PoolStake.staker]_vars

C12_Witness ==
    /\ last.instr = "DepositStake"
    /\ last.args.pool_stake = "pool_stake1"
    /\ last.args.pool_authority = "pool_authority0" /\ last.args.pool_mint = "pool_mint0"
    /\ last.result = "InvalidPoolAuthority" /\ last.issued = <<>>
    /\ PoolStake.state = "Stake" /\ UserStake.state = "Stake"
    /\ UserStake.staker = "pool_authority1"

\* C13: for a supply > 0 and a pool stake > 0, the deposit amount is
\* non-decreasing in the deposited stake and the withdraw amount is
\* non-decreasing in the burned tokens, over every two amounts whose results
\* are both defined; and at supply = stake = s > 0 a deposit of x mints x.
C13_Monotonic ==
    LET s == calc.pre_token_supply
        p == calc.pre_pool_stake
        a == calc.amount
    IN  /\ (calc.op \in {"deposited", "deposit_failed"} /\ s > 0 /\ p > 0) =>
               /\ \A b \in Amounts :
                      (a <= b /\ IsSome(calc.out)
                          /\ IsSome(calculate_deposit_amount(s, p, b)))
                      => Unwrap(calc.out) <= Unwrap(calculate_deposit_amount(s, p, b))
               /\ s = p => calc.out = Some(a)
        /\ (calc.op = "withdrawn" /\ s > 0 /\ p > 0) =>
               \A b \in Amounts :
                   (a <= b /\ IsSome(calc.out)
                       /\ IsSome(calculate_withdraw_amount(s, p, b)))
                   => Unwrap(calc.out) <= Unwrap(calculate_withdraw_amount(s, p, b))

C13_Witness ==
    /\ calc.op = "deposited"
    /\ calc.pre_token_supply = 9 /\ calc.pre_pool_stake = 9 /\ calc.amount = 11
    /\ calc.out = Some(11)
    /\ calculate_deposit_amount(9, 9, 12) = Some(12)

\* an InitializePool call with a current vote account, the derived addresses
\* and the programs' ids
ProperInitialize(l) ==
    /\ l.instr = "InitializePool"
    /\ l.args.vote_account = "vote1"
    /\ l.args.pool_stake = "pool_stake1"
    /\ l.args.pool_authority = "pool_authority1"
    /\ l.args.pool_mint = "pool_mint1"

\* C14: an InitializePool that has created the mint fails with
\* WrongRentAmount when the pool stake account holds less than the stake
\* rent-exempt minimum plus the minimum delegation (saturating sum) and passes
\* the check at or above it; no InitializePool succeeds below the threshold;
\* on success the stake account's staker and withdrawer are the pool
\* authority, it is delegated to the vote account with everything above the
\* rent, and the mint is initialized with the pool authority as mint
\* authority, no freeze authority and no supply.
C14_InitializeRent ==
    [][last'.instr = "InitializePool" =>
          LET threshold == saturating_add(STAKE_RENT, minimum_delegation(net_minimum))
              mint_created == /\ accounts.mint.owner = "system_program"
                              /\ ~accounts.mint.allocated
                              /\ accounts.mint.lamports >= MINT_RENT
              pool == accounts'.stake["pool_stake1"]
          IN  /\ (ProperInitialize(last') /\ mint_created
                     /\ PoolStake.lamports < threshold)
                  => /\ last'.result = "WrongRentAmount"
                     /\ last'.issued = <<Op("allocate", "pool_mint1", 0),
                                         Op("assign", "pool_mint1", 0),
                                         Op("initialize_mint2", "pool_mint1", 0)>>
                     /\ accounts' = accounts
              /\ (ProperInitialize(last') /\ mint_created
                     /\ PoolStake.lamports >= threshold)
                  => last'.result = "Ok"
              /\ PoolStake.lamports < threshold => last'.result # "Ok"
              /\ last'.result = "Ok" =>
                     /\ ProperInitialize(last')
                     /\ pool.owner = "stake_program" /\ pool.state = "Stake"
                     /\ pool.staker = last'.args.pool_authority
                     /\ pool.withdrawer = last'.args.pool_authority
                     /\ pool.voter = last'.args.vote_account
                     /\ pool.stake = PoolStake.lamports - STAKE_RENT
                     /\ pool.lamports = PoolStake.lamports
                     /\ pool.activation_epoch = clock
                     /\ pool.deactivation_epoch = EPOCH_MAX
                     /\ accounts'.mint.owner = "token_program"
                     /\ accounts'.mint.is_initialized
                     /\ accounts'.mint.mint_authority = last'.args.pool_authority
                     /\ accounts'.mint.freeze_authority = "none"
                     /\ accounts'.mint.supply = 0
       ]_vars

\* the pool was initialized with exactly the threshold
C14_Witness ==
    /\ ProperInitialize(last) /\ last.result = "Ok"
    /\ PoolStake.lamports = saturating_add(STAKE_RENT, minimum_delegation(net_minimum))
    /\ PoolStake.stake = minimum_delegation(net_minimum)
    /\ PoolStake.staker = "pool_authority1" /\ PoolStake.withdrawer = "pool_authority1"
    /\ accounts.mint.mint_authority = "pool_authority1"

\* the pool of vote1 exists
PoolExists == PoolStake.state = "Stake" /\ accounts.mint.is_initialized

\* C15: a successful InitializePool creates the pool's stake account and
\* mint together; they exist from then on; and every InitializePool called
\* while the pool exists fails, at the allocation of the mint when the
\* addresses are the derived ones, and leaves the mint and the pool stake
\* account as they were.
C15_InitializeOnce ==
    /\ [](PoolStake.state # "Uninitialized" <=> accounts.mint.is_initialized)
    /\ [][ /\ (last'.instr = "InitializePool" /\ last'.result = "Ok") =>
                  (~PoolExists /\ PoolExists')
           /\ PoolExists =>
                  /\ PoolExists'
                  /\ accounts'.mint.mint_authority = accounts.mint.mint_authority
                  /\ accounts'.mint.owner = accounts.mint.owner
           /\ (last'.instr = "InitializePool" /\ PoolExists) =>
                  /\ last'.result # "Ok"
                  /\ accounts'.mint = accounts.mint
                  /\ accounts'.stake["pool_stake1"] = PoolStake
                  /\ ProperInitialize(last') =>
                         /\ last'.result = "AllocateFailed"
                         /\ last'.issued = <<Op("allocate", "pool_mint1", 0)>>
       ]_vars

\* a second InitializePool on a pool that has taken deposits
C15_Witness ==
    /\ ProperInitialize(last) /\ last.result = "AllocateFailed"
    /\ PoolExists /\ accounts.mint.supply > 0
    /\ PoolStake.lamports >= saturating_add(STAKE_RENT, minimum_delegation(net_minimum))

\* C16: a successful withdrawal invokes burn, split, authorize(Staker) and
\* authorize(Withdrawer) in this order and nothing else: token_amount is
\* burned from the user's token account, the computed withdraw amount is
\* split from the pool stake account into the user stake account, whose
\* staker and withdrawer are then the user_stake_authority of the call; a
\* split is invoked only after a burn that succeeded, and a call whose burn
\* fails moves no stake.
C16_WithdrawOrder ==
    [][(ProperCall(last', "WithdrawStake") /\ PoolExists) =>
          LET args == last'.args
              effective == saturating_sub(PoolStake.stake, minimum_delegation(net_minimum))
              w == calculate_withdraw_amount(accounts.mint.supply, effective,
                                             args.token_amount)
              burnt == accounts.tokens[args.user_token_account] >= args.token_amount
              user == accounts'.stake["user_stake"]
          IN  /\ last'.result = "Ok" =>
                     /\ last'.issued =
                            <<Op("burn", args.user_token_account, args.token_amount),
                              Op("split", "pool_stake1", Unwrap(w)),
                              Op("authorize_staker", "user_stake", 0),
                              Op("authorize_withdrawer", "user_stake", 0)>>
                     /\ accounts'.tokens[args.user_token_account] =
                            accounts.tokens[args.user_token_account] - args.token_amount
                     /\ accounts'.mint.supply = accounts.mint.supply - args.token_amount
                     /\ accounts'.stake["pool_stake1"].stake = PoolStake.stake - Unwrap(w)
                     /\ accounts'.stake["pool_stake1"].lamports =
                            PoolStake.lamports - Unwrap(w)
                     /\ user.stake = Unwrap(w)
                     /\ user.lamports = UserStake.lamports + Unwrap(w)
                     /\ user.voter = PoolStake.voter
                     /\ user.staker = args.user_stake_authority
                     /\ user.withdrawer = args.user_stake_authority
              /\ (\E i \in 1 .. Len(last'.issued) : last'.issued[i].op = "split") =>
                     (last'.issued[1].op = "burn" /\ burnt)
              /\ (Len(last'.issued) >= 1 /\ ~burnt) =>
                     /\ last'.result = "BurnFailed"
                     /\ last'.issued = <<Op("burn", args.user_token_account,
                                            args.token_amount)>>
              /\ last'.result # "Ok" => accounts'.stake = accounts.stake
       ]_vars

\* another holder's withdrawal, to an authority of its choice
C16_Witness ==
    /\ ProperCall(last, "WithdrawStake") /\ last.result = "Ok"
    /\ last.args.user_token_account = "other_token"
    /\ last.args.user_stake_authority = "other"
    /\ Len(last.issued) = 4
    /\ UserStake.staker = "other" /\ UserStake.withdrawer = "other"
    /\ UserStake.stake = last.issued[2].amount

\* C17: a deposit computes the excess as the pool stake account's lamports
\* after the merge minus its delegated stake minus its rent-exempt reserve
\* (ArithmeticOverflow only if that is negative); a successful deposit
\* withdraws exactly the excess, lamports sent to the pool account by others
\* included, to the user's lamport account when it is > 0 and invokes no
\* withdraw when it is 0; afterwards the pool account's lamports are its
\* delegated stake plus its rent-exempt reserve.
C17_ExcessLamports ==
    [][(ProperCall(last', "DepositStake")
           /\ last'.result \in {"Ok", "ArithmeticOverflow", "WithdrawFailed"}) =>
          LET lamports == PoolStake.lamports + UserStake.lamports
              excess == lamports - PostMergeStake - PoolStake.rent_exempt_reserve
              pool == accounts'.stake["pool_stake1"]
              min == minimum_delegation(net_minimum)
          IN  /\ last'.result = "ArithmeticOverflow" =>
                     \/ excess < 0
                     \/ saturating_sub(PostMergeStake, min)
                            < saturating_sub(PoolStake.stake, min)
              /\ last'.result = "Ok"
              /\ excess >= 0
              /\ excess > 0 =>
                     /\ Len(last'.issued) = 3
                     /\ last'.issued[3] = Op("withdraw", "pool_stake1", excess)
              /\ excess = 0 =>
                     /\ Len(last'.issued) = 2
                     /\ \A i \in 1 .. 2 : last'.issued[i].op # "withdraw"
              /\ accounts'.wallet = accounts.wallet + excess
              /\ pool.lamports = lamports - excess
              /\ pool.lamports = pool.stake + pool.rent_exempt_reserve
       ]_vars

\* a deposit into a pool that was sent lamports: the refund is the user's
\* rent and the lamports sent
C17_Witness ==
    /\ ProperCall(last, "DepositStake") /\ last.result = "Ok"
    /\ Len(last.issued) = 3
    /\ last.issued[3] = Op("withdraw", "pool_stake1", STAKE_RENT + 2)
    /\ PoolStake.lamports = PoolStake.stake + PoolStake.rent_exempt_reserve

\* C18: once the pool is initialized, through every deposit and withdrawal
\* (the reported minimum delegation constant, no slashing), the delegated
\* stake of the pool stake account is at least the minimum delegation, the
\* larger of the reported minimum and LAMPORTS_PER_SOL, and its lamports
\* cover the stake and the rent-exempt reserve.
C18_StakeAtLeastMinimum ==
    PoolStake.state = "Stake" =>
        /\ PoolStake.stake >= net_minimum
        /\ PoolStake.stake >= LAMPORTS_PER_SOL
        /\ PoolStake.lamports >= PoolStake.stake + PoolStake.rent_exempt_reserve

\* a withdrawal of the whole supply has taken the pool down to the minimum
C18_Witness ==
    /\ ProperCall(last, "WithdrawStake") /\ last.result = "Ok"
    /\ last.issued[2].amount >= 2
    /\ accounts.mint.supply = 0
    /\ PoolStake.stake = minimum_delegation(net_minimum)

-----------------------------------------------------------------------------
(* Claims about the vote account (MetaSpec) *)

\* what the vote account check has to return for an account
ExpectedVoteCheck(info) ==
    IF info.owner # "vote_program" THEN "IncorrectProgramId"
    ELSE IF Len(info.data) < 4 THEN "UnparseableVoteAccount"
    ELSE LET value == info.data[1] + 256 * info.data[2] + 65536 * info.data[3]
                      + 16777216 * info.data[4]
         IN  IF value = 1 THEN "Ok"
             ELSE IF value = 0 THEN "LegacyVoteAccount"
             ELSE "UnparseableVoteAccount"

\* C19: InitializePool and UpdateTokenMetadata check the vote account before
\* anything else: the call fails with IncorrectProgramId when the account is
\* not owned by the vote program; otherwise with UnparseableVoteAccount when
\* its data is shorter than 4 bytes; otherwise the first 4 bytes are read as
\* a little-endian u32 and the check passes iff the value is 1, fails with
\* LegacyVoteAccount iff it is 0 and with UnparseableVoteAccount for any
\* other value; a failed check invokes nothing.
C19_CheckVoteAccount ==
    [][last'.instr \in {"InitializePool", "UpdateTokenMetadata"} =>
          LET info == accounts.vote[last'.args.vote_account]
              expected == ExpectedVoteCheck(info)
          IN  /\ check_vote_account(info) = expected
              /\ expected # "Ok" =>
                     /\ last'.result = expected
                     /\ last'.issued = <<>>
                     /\ accounts' = accounts
              /\ expected = "Ok" => last'.result # "LegacyVoteAccount"
              /\ (expected = "Ok" /\ last'.instr = "InitializePool") =>
                     last'.result # "UnparseableVoteAccount"
       ]_vars

\* the variant 1 written most significant byte first is not a current account
C19_Witness ==
    /\ last.instr = "InitializePool" /\ last.args.vote_account = "vote1"
    /\ last.result = "UnparseableVoteAccount"
    /\ accounts.vote["vote1"].owner = "vote_program"
    /\ Len(accounts.vote["vote1"].data) = VOTE_STATE_END
    /\ SubSeq(accounts.vote["vote1"].data, 1, 4) = <<0, 0, 0, 1>>

\* C20: UpdateTokenMetadata, once its vote account, authority and metadata
\* checks have passed, fails with UnparseableVoteAccount when the vote data
\* ends before the withdrawer's key, with InvalidMetadataSigner when the
\* supplied authorized-withdrawer key differs from the key in the vote data
\* (whether or not the account signed), with SignatureMissing when the key
\* matches and the account did not sign; the update sub-operation is invoked
\* only for a matching key that signed.
C20_UpdateMetadataSigner ==
    [][last'.instr = "UpdateTokenMetadata" =>
          LET args == last'.args
              info == accounts.vote[args.vote_account]
              passed == /\ ExpectedVoteCheck(info) = "Ok"
                        /\ args.pool_authority =
                               find_pool_authority_address_and_bump(
                                   args.vote_account).address
                        /\ args.mpl_token_metadata_program = "mpl_token_metadata"
                        /\ args.metadata = "metadata1"
              short == Len(info.data) < VOTE_STATE_END
              stored == SubSeq(info.data, VOTE_STATE_START + 1, VOTE_STATE_END)
          IN  /\ (passed /\ short) =>
                     (last'.result = "UnparseableVoteAccount" /\ last'.issued = <<>>)
              /\ (passed /\ ~short /\ args.authorized_withdrawer # stored) =>
                     (last'.result = "InvalidMetadataSigner" /\ last'.issued = <<>>)
              /\ (passed /\ ~short /\ args.authorized_withdrawer = stored
                     /\ ~args.authorized_withdrawer_is_signer) =>
                     (last'.result = "SignatureMissing" /\ last'.issued = <<>>)
              /\ (passed /\ ~short /\ args.authorized_withdrawer = stored
                     /\ args.authorized_withdrawer_is_signer) =>
                     /\ last'.issued =
                            <<Op("update_metadata_accounts_v2", "metadata1", 0)>>
                     /\ last'.result \in {"Ok", "UpdateMetadataFailed"}
                     /\ last'.result = "Ok" <=> accounts.metadata.created
              /\ last'.issued # <<>> =>
                     /\ passed /\ ~short
                     /\ args.authorized_withdrawer = stored
                     /\ args.authorized_withdrawer_is_signer
              /\ last'.result # "Ok" => accounts' = accounts
       ]_vars

\* the withdrawer of the vote account has renamed the pool token
C20_Witness ==
    /\ last.instr = "UpdateTokenMetadata" /\ last.result = "Ok"
    /\ last.args.authorized_withdrawer_is_signer
    /\ Len(accounts.vote["vote1"].data) = VOTE_STATE_END
    /\ last.args.authorized_withdrawer =
           SubSeq(accounts.vote["vote1"].data, VOTE_STATE_START + 1, VOTE_STATE_END)
    /\ accounts.metadata.name = "name"

-----------------------------------------------------------------------------
(* Claims about derivation, share value and redemption (Spec)              *)

\* the addresses a caller may pass for each role
StakeAddresses == StakeKeys \cup {"pool_stake0"}

\* the addresses a role's check accepts for a vote account
AcceptedStake(vote) ==
    {address \in StakeAddresses : check_pool_stake_address(vote, address).err = "Ok"}

AcceptedAuthority(vote) ==
    {address \in Authorities : check_pool_authority_address(vote, address).err = "Ok"}

AcceptedMint(vote) ==
    {address \in Mints : check_pool_mint_address(vote, address).err = "Ok"}

EffectiveAbove(raw, floor) ==
    LET m == IF net_minimum > floor THEN net_minimum ELSE floor
    IN  IF raw > m THEN raw - m ELSE 0

\* what the handlers do when the fixed floor of the minimum delegation is
\* floor: InitializePool succeeds only with the rent and that minimum in the
\* account and fails with WrongRentAmount only below it; a successful deposit
\* mints and a successful withdrawal splits the amounts computed from the
\* effective stakes above that minimum
HandlersUseFloor(floor) ==
    LET m == IF net_minimum > floor THEN net_minimum ELSE floor
    IN  /\ (last'.instr = "InitializePool" /\ last'.result = "Ok")
               => PoolStake.lamports >= STAKE_RENT + m
        /\ (last'.instr = "InitializePool" /\ last'.result = "WrongRentAmount")
               => PoolStake.lamports < STAKE_RENT + m
        /\ (ProperCall(last', "DepositStake") /\ last'.result = "Ok")
               => LET pre == EffectiveAbove(PoolStake.stake, floor)
                      post == EffectiveAbove(PostMergeStake, floor)
                  IN  /\ post >= pre
                      /\ accounts'.mint.supply - accounts.mint.supply =
                             Unwrap(calculate_deposit_amount(accounts.mint.supply, pre,
                                                             post - pre))
        /\ (ProperCall(last', "WithdrawStake") /\ last'.result = "Ok")
               => PoolStake.stake - accounts'.stake["pool_stake1"].stake =
                      Unwrap(calculate_withdraw_amount(
                                 accounts.mint.supply,
                                 EffectiveAbove(PoolStake.stake, floor),
                                 last'.args.token_amount))

\* C22 as stated: the fixed floor of the minimum delegation is 1 unit
C22_FloorOneUnit == [][HandlersUseFloor(1)]_vars

\* C22: the minimum delegation every handler uses is the larger of the
\* network's minimum delegation and LAMPORTS_PER_SOL; the effective stake is
\* the raw delegated stake minus it, 0 when the raw stake is not above it,
\* for every raw stake a u64 holds.
C22_MinimumDelegation ==
    /\ [](/\ minimum_delegation(net_minimum) =
                 (IF net_minimum > LAMPORTS_PER_SOL THEN net_minimum
                  ELSE LAMPORTS_PER_SOL)
          /\ \A raw \in {0, 1, LAMPORTS_PER_SOL, PoolStake.stake, U64_MAX} :
                 /\ saturating_sub(raw, minimum_delegation(net_minimum)) =
                        EffectiveAbove(raw, LAMPORTS_PER_SOL)
                 /\ saturating_sub(raw, minimum_delegation(net_minimum)) \in 0 .. raw)
    /\ [][HandlersUseFloor(LAMPORTS_PER_SOL)]_vars

\* with the network's minimum below LAMPORTS_PER_SOL, a withdrawal of the
\* whole supply has left LAMPORTS_PER_SOL in the pool
C22_Witness ==
    /\ net_minimum < LAMPORTS_PER_SOL
    /\ ProperCall(last, "WithdrawStake") /\ last.result = "Ok"
    /\ last.args.token_amount >= 2
    /\ accounts.mint.supply = 0
    /\ PoolStake.stake = LAMPORTS_PER_SOL

\* the pool's effective stake: its delegated stake above the minimum delegation
EffectiveStake(a) ==
    saturating_sub(a.stake["pool_stake1"].stake, minimum_delegation(net_minimum))

\* C23: a successful DepositStake or WithdrawStake on a pool with supply
\* S > 0 and effective stake E > 0 leaves supply S' and effective stake E'
\* with E' * S >= E * S': the stake behind each remaining token does not
\* decrease.
C23_ShareValue ==
    [][((ProperCall(last', "DepositStake") \/ ProperCall(last', "WithdrawStake"))
           /\ last'.result = "Ok"
           /\ accounts.mint.supply > 0 /\ EffectiveStake(accounts) > 0)
          => EffectiveStake(accounts') * accounts.mint.supply
                 >= EffectiveStake(accounts) * accounts'.mint.supply]_vars

\* a withdrawal that burned t tokens for w of stake, rounded down, left
\* holders behind: their tokens are worth more than before
C23_Witness ==
    /\ ProperCall(last, "WithdrawStake") /\ last.result = "Ok"
    /\ Len(last.issued) >= 2
    /\ last.issued[1].op = "burn" /\ last.issued[2].op = "split"
    /\ accounts.mint.supply > 0
    /\ EffectiveStake(accounts) * (accounts.mint.supply + last.issued[1].amount)
           > (EffectiveStake(accounts) + last.issued[2].amount) * accounts.mint.supply

\* C24: once the pool is initialized, through every deposit and withdrawal,
\* the pool token supply is at most the pool's effective stake; tokens are
\* never outstanding against an effective stake of 0.
C24_SupplyBacked ==
    PoolExists =>
        /\ accounts.mint.supply <= EffectiveStake(accounts)
        /\ accounts.mint.supply > 0 => EffectiveStake(accounts) > 0

\* a deposit at a rate above 1 has been made: more stake than tokens
C24_Witness ==
    /\ PoolExists
    /\ ProperCall(last, "DepositStake") /\ last.result = "Ok"
    /\ accounts.mint.supply > last.issued[2].amount
    /\ last.issued[2].amount >= 1
    /\ accounts.mint.supply < EffectiveStake(accounts)

C26_Overflow ==
    /\ [](/\ U64_MAX * U64_MAX <= U128_MAX
          /\ checked_mul(U64_MAX, U64_MAX) = Some(U64_MAX * U64_MAX)
          /\ calculate_deposit_amount(U64_MAX, 1, U64_MAX) = None
          /\ calculate_deposit_amount(U64_MAX, U64_MAX, U64_MAX) = Some(U64_MAX)
          /\ calculate_withdraw_amount(1, U64_MAX, U64_MAX) = None
          /\ calculate_withdraw_amount(U64_MAX, U64_MAX, U64_MAX) = Some(U64_MAX))
    /\ [][(ProperCall(last', "WithdrawStake") /\ PoolExists) =>
             LET S == accounts.mint.supply
                 E == EffectiveStake(accounts)
                 t == last'.args.token_amount
                 w == calculate_withdraw_amount(S, E, t)
             IN  /\ checked_mul(t, E) = Some(t * E)
                 /\ w = None <=> (S # 0 /\ t * E >= S /\ (t * E) \div S > U64_MAX)
                 /\ w = None <=> last'.result = "UnexpectedMathError"
                 /\ w = None => (last'.issued = <<>> /\ accounts' = accounts)]_vars
    /\ [][(ProperCall(last', "DepositStake") /\ Len(last'.issued) >= 1
              /\ last'.result # "MergeFailed") =>
             LET S == accounts.mint.supply
                 E == EffectiveStake(accounts)
                 a == saturating_sub(PostMergeStake, minimum_delegation(net_minimum)) - E
                 N == calculate_deposit_amount(S, E, a)
             IN  /\ checked_mul(a, S) = Some(a * S)
                 /\ N = None <=> (S # 0 /\ E # 0 /\ (a * S) \div E > U64_MAX)
                 /\ N = None => (/\ last'.result = "UnexpectedMathError"
                                 /\ last'.issued = <<Op("merge", "pool_stake1", 0)>>
                                 /\ accounts' = accounts)
                 /\ (\E i \in 1 .. Len(last'.issued) : last'.issued[i].op = "mint_to")
                        => N # None]_vars

\* a withdrawal of u64::MAX tokens from a pool with more stake than tokens
\* overflowed the quotient and was refused before the burn
C26_Witness ==
    /\ ProperCall(last, "WithdrawStake")
    /\ last.args.token_amount = U64_MAX
    /\ last.result = "UnexpectedMathError" /\ last.issued = <<>>
    /\ PoolExists /\ accounts.mint.supply > 0
    /\ calculate_withdraw_amount(accounts.mint.supply, EffectiveStake(accounts),
                                 U64_MAX) = None
    /\ U64_MAX > EffectiveStake(accounts)

\* C27: on a pool with supply S > 0, a WithdrawStake of t <= S tokens never
\* fails with WithdrawalTooLarge or UnexpectedMathError; with t = S it passes
\* every check of the handler and the burn is invoked; after the burn the
\* split is invoked for exactly the effective stake; the call succeeds when
\* the token account holds the tokens and the user stake account is a blank
\* rent-exempt stake account that the effective stake brings to the
\* network's minimum; on success the pool is left with a delegated stake
\* equal to the minimum delegation and no supply.
C27_RedemptionNotBlocked ==
    [][(ProperCall(last', "WithdrawStake") /\ PoolExists
           /\ accounts.mint.supply > 0
           /\ last'.args.token_amount <= accounts.mint.supply) =>
          LET S == accounts.mint.supply
              E == EffectiveStake(accounts)
              t == last'.args.token_amount
              account == last'.args.user_token_account
              blank == /\ UserStake.owner = "stake_program" /\ UserStake.allocated
                       /\ UserStake.state = "Uninitialized"
                       /\ UserStake.lamports >= STAKE_RENT
          IN  /\ last'.result \notin {"WithdrawalTooLarge", "UnexpectedMathError"}
              /\ t = S =>
                     /\ last'.result # "WithdrawalTooSmall"
                     /\ Len(last'.issued) >= 1
                     /\ last'.issued[1] = Op("burn", account, t)
                     /\ accounts.tokens[account] >= t =>
                            /\ Len(last'.issued) >= 2
                            /\ last'.issued[2] = Op("split", "pool_stake1", E)
                     /\ (accounts.tokens[account] >= t /\ blank /\ E >= net_minimum)
                            => last'.result = "Ok"
                     /\ last'.result = "Ok" =>
                            /\ accounts'.stake["pool_stake1"].stake =
                                   minimum_delegation(net_minimum)
                            /\ accounts'.stake["user_stake"].stake = E
                            /\ accounts'.mint.supply = 0
       ]_vars

\* the whole supply, worth more than one unit of stake per token, was redeemed
C27_Witness ==
    /\ ProperCall(last, "WithdrawStake") /\ last.result = "Ok"
    /\ last.args.token_amount >= 1
    /\ accounts.mint.supply = 0
    /\ last.issued[1].amount = last.args.token_amount
    /\ last.issued[2].amount > last.args.token_amount
    /\ UserStake.stake = last.issued[2].amount
    /\ EffectiveStake(accounts) = 0

\* C28: the pool stake account holds at least its delegated stake and its
\* rent-exempt reserve and the minimum delegation is at least 1, so a
\* withdraw amount w with 0 < w <= effective stake is below the account's
\* lamports; the ceiling check of every withdrawal is decided by
\* w > effective stake alone, and WithdrawalTooLarge is returned exactly then.
C28_SecondCaseUnreachable ==
    /\ [](PoolExists =>
             /\ minimum_delegation(net_minimum) >= 1
             /\ PoolStake.lamports >= PoolStake.stake + PoolStake.rent_exempt_reserve
             /\ PoolStake.lamports > EffectiveStake(accounts))
    /\ [][(ProperCall(last', "WithdrawStake") /\ PoolExists) =>
             LET E == EffectiveStake(accounts)
                 w == calculate_withdraw_amount(accounts.mint.supply, E,
                                                last'.args.token_amount)
             IN  IsSome(w) =>
                     /\ (0 < Unwrap(w) /\ Unwrap(w) <= E) => Unwrap(w) < PoolStake.lamports
                     /\ Unwrap(w) = PoolStake.lamports => Unwrap(w) > E
                     /\ is_withdrawal_too_large(Unwrap(w), E, PoolStake.lamports)
                            <=> Unwrap(w) > E
                     /\ last'.result = "WithdrawalTooLarge" <=> Unwrap(w) > E]_vars

\* a withdrawal refused for exceeding the effective stake, with an amount
\* below the account's lamports
C28_Witness ==
    /\ ProperCall(last, "WithdrawStake") /\ last.result = "WithdrawalTooLarge"
    /\ PoolExists /\ accounts.mint.supply > 0
    /\ LET w == calculate_withdraw_amount(accounts.mint.supply, EffectiveStake(accounts),
                                          last.args.token_amount)
       IN  /\ IsSome(w)
           /\ Unwrap(w) > EffectiveStake(accounts)
           /\ Unwrap(w) < PoolStake.lamports

-----------------------------------------------------------------------------
(* Claims about the token metadata's creation (MetaSpec)                   *)

\* the address, program and payer checks of a CreateTokenMetadata call pass
CreateChecksPass(args) ==
    /\ args.pool_authority =
           find_pool_authority_address_and_bump(args.vote_account_address).address
    /\ args.pool_mint = find_pool_mint_address_and_bump(args.vote_account_address).address
    /\ args.system_program = "system_program"
    /\ AccountOwner(args.payer) = "system_program"
    /\ args.mpl_token_metadata_program = "mpl_token_metadata"
    /\ args.metadata = find_metadata_account(args.pool_mint)

\* the account at the mint address of a call holds an initialized mint
MintExists(args) == args.pool_mint = "pool_mint1" /\ accounts.mint.is_initialized

\* C29: CreateTokenMetadata invokes the metadata creation exactly when the
\* pool authority and pool mint are the derived addresses, the system and
\* metadata programs are the right ones, the payer is owned by the system
\* program and signed, the metadata account is the one derived from the pool
\* mint and the pool mint holds a mint; with the other checks passed and no
\* payer signature it fails with SignatureMissing; for a pool that is not
\* initialized it always fails, nothing invoked; on success the metadata is
\* created with the pool authority as update authority.
C29_CreateMetadata ==
    [][last'.instr = "CreateTokenMetadata" =>
          LET args == last'.args
              create == <<Op("create_metadata_accounts_v3", args.metadata, 0)>>
          IN  /\ last'.issued \in {<<>>, create}
              /\ last'.issued = create <=>
                     (CreateChecksPass(args) /\ args.payer_is_signer /\ MintExists(args))
              /\ (CreateChecksPass(args) /\ ~args.payer_is_signer)
                     => last'.result = "SignatureMissing"
              /\ last'.result = "SignatureMissing" => ~args.payer_is_signer
              /\ AccountOwner(args.payer) # "system_program" => last'.result # "Ok"
              /\ ~MintExists(args) => (last'.result # "Ok" /\ last'.issued = <<>>)
              /\ (CreateChecksPass(args) /\ args.payer_is_signer /\ ~MintExists(args))
                     => last'.result = "InvalidAccountData"
              /\ last'.result = "Ok" =>
                     /\ last'.issued = create
                     /\ ~accounts.metadata.created
                     /\ accounts'.metadata.created
                     /\ accounts'.metadata.update_authority = args.pool_authority
                     /\ accounts'.metadata.name = token_name(args.vote_account_address)
                     /\ accounts'.metadata.symbol = token_symbol(args.vote_account_address)
                     /\ accounts'.metadata.uri = ""
              /\ last'.result # "Ok" => accounts' = accounts
       ]_vars

\* the metadata of the initialized pool's token has been created
C29_Witness ==
    /\ last.instr = "CreateTokenMetadata" /\ last.result = "Ok"
    /\ last.args.payer = "wallet" /\ last.args.payer_is_signer
    /\ last.issued = <<Op("create_metadata_accounts_v3", "metadata1", 0)>>
    /\ PoolExists
    /\ accounts.metadata.created
    /\ accounts.metadata.update_authority = "pool_authority1"

====
